---- MODULE Spec2Model ----
(***************************************************************************)
(* Model of the storage microservices (okebinda/storage.microservices.go): *)
(* the image-serve crop handlers, the image-upload finalize handlers       *)
(* (chi-routed, Lambda-native and SQS-driven), the upload-url and delete   *)
(* handlers.  Every handler invocation is one action: the handler body is  *)
(* translated statement group by statement group into operators over a     *)
(* run record (ret = the handler has returned, trace = the effects it      *)
(* performed in program order, file = the local temp file, v = locals).    *)
(*                                                                         *)
(* Strings are sequences of atoms (characters for the size token and the   *)
(* numeric environment values, larger pieces elsewhere); fmt.Sprintf is    *)
(* concatenation.                                                          *)
(***************************************************************************)
EXTENDS Integers, Sequences, FiniteSets, TLC

VARIABLES pc, handler, request, config, world, trace, file, vals, batch

vars == <<pc, handler, request, config, world, trace, file, vals, batch>>

(***************************************************************************)
(* Bounds of the model.                                                    *)
(***************************************************************************)
\* longest size token / numeric string that is enumerated
MaxTokLen == 4
\* largest source image side enumerated for the fit arithmetic
MaxSrc == 48
\* largest bound (max width / max height) enumerated for the fit arithmetic
MaxBound == 3
\* largest number of SQS records in one invocation
MaxBatch == 3

(***************************************************************************)
(* Strings.                                                                *)
(***************************************************************************)
Digits == {"0", "1", "2", "3", "4", "5", "6", "7", "8", "9"}

IsDigit(c) == c \in Digits

DigitVal(c) ==
  CASE c = "0" -> 0 [] c = "1" -> 1 [] c = "2" -> 2 [] c = "3" -> 3
    [] c = "4" -> 4 [] c = "5" -> 5 [] c = "6" -> 6 [] c = "7" -> 7
    [] c = "8" -> 8 [] c = "9" -> 9

\* the number a sequence of decimal digits denotes
DecVal(s) ==
  LET val[i \in 0..Len(s)] ==
        IF i = 0 THEN 0 ELSE 10 * val[i - 1] + DigitVal(s[i])
  IN val[Len(s)]

\* strconv.Atoi: optional sign, then one or more decimal digits.  (The range
\* error needs more than 18 digits and is outside every enumerated string.)
Atoi(s) ==
  LET signed == Len(s) > 0 /\ s[1] \in {"+", "-"}
      body   == IF signed THEN Tail(s) ELSE s
      bad    == Len(body) = 0 \/ \E i \in 1..Len(body) : ~IsDigit(body[i])
  IN IF bad THEN [err |-> TRUE, val |-> 0]
     ELSE [err |-> FALSE,
           val |-> IF signed /\ s[1] = "-" THEN 0 - DecVal(body) ELSE DecVal(body)]

\* index of the first occurrence of atom c in s, 0 when there is none
IndexOf(s, c) ==
  IF \E i \in 1..Len(s) : s[i] = c
  THEN CHOOSE i \in 1..Len(s) : s[i] = c /\ \A j \in 1..(i - 1) : s[j] # c
  ELSE 0

\* strings.Split(s, sep) for a one-atom separator
Split(s, sep) ==
  LET cuts   == {0, Len(s) + 1} \cup {i \in 1..Len(s) : s[i] = sep}
      Cut(k) == CHOOSE c \in cuts : Cardinality({d \in cuts : d < c}) = k
  IN [k \in 1..(Cardinality(cuts) - 1) |-> SubSeq(s, Cut(k - 1) + 1, Cut(k) - 1)]

\* the pattern without its anchors: \d+x\d+ found anywhere in size
MatchSizeMutant(s) ==
  \E i \in 2..(Len(s) - 1) : s[i] = "x" /\ IsDigit(s[i - 1]) /\ IsDigit(s[i + 1])

\* regexp.MatchString(`^\d+x\d+$`, size)
MatchSize(s) ==
  \E i \in 2..(Len(s) - 1) :
       /\ s[i] = "x"
       /\ \A j \in 1..(i - 1) : IsDigit(s[j])
       /\ \A j \in (i + 1)..Len(s) : IsDigit(s[j])

\* strings.HasPrefix(err.Error(), "NoSuchKey")
HasPrefix(s, p) == Len(s) > 0 /\ s[1] = p

\* filepath.Base on a key whose path separators are "/" atoms
Base(s) ==
  LET parts == Split(s, "/")
  IN IF Len(s) = 0 THEN <<".">> ELSE parts[Len(parts)]

\* validImageFormats
validImageFormats == <<"image/png", "image/jpeg">>

\* a contains that accepts every string
containsMutant(a, x) == TRUE

\* contains tests if a slice contains a string
contains(a, x) == \E i \in 1..Len(a) : a[i] = x

\* a min with the comparison reversed
minMutant(a, b) == IF a < b THEN b ELSE a

\* min returns the lesser of two ints
min(a, b) == IF a < b THEN a ELSE b

(***************************************************************************)
(* float64 arithmetic of resizeImageIfTooLarge.                            *)
(*                                                                         *)
(* FloatScale(x, b, w) is int(float64(x) * (float64(b) / float64(w))) for  *)
(* integers 0 < b < w and x > 0, computed as IEEE-754 binary64 does:       *)
(* the quotient b/w is rounded to nearest-even on 53 bits, the product is  *)
(* rounded again, and int() truncates.  With k the least exponent such     *)
(* that B = b*2^k >= w, the quotient's significand is m = RNE(B*2^52 / w), *)
(* so w*m = B*2^52 + delta with |delta| <= w/2.  The product x*m differs   *)
(* from (x*b/w)*2^(52+k) by x*delta/w; it truncates below the exact        *)
(* quotient only when x*b/w is an integer N, delta < 0 and the product is  *)
(* not rounded back up to N*2^(52+k), i.e. when x*|delta|/w exceeds half   *)
(* an ulp 2^(k + ceil(log2 N) - 1) of the binade below N*2^(52+k).         *)
(***************************************************************************)
Pow2(n) == 2 ^ n

\* the least k with b * 2^k >= w
ShiftFor(b, w) ==
  LET sh[k \in 0..w] == IF b * Pow2(k) >= w THEN k ELSE sh[k + 1]
  IN sh[0]

\* the least c with 2^c >= n
CeilLog2(n) ==
  LET lg[c \in 0..n] == IF Pow2(c) >= n THEN c ELSE lg[c + 1]
  IN lg[0]

\* (a * 2^52) mod q, by squaring 2^26 mod q
Shl52Mod(a, q) ==
  LET h == Pow2(26) % q
  IN ((a % q) * ((h * h) % q)) % q

\* w*m - B*2^52 for the rounded significand m of float64(b)/float64(w)
QuotientDelta(b, w) ==
  LET B    == b * Pow2(ShiftFor(b, w))
      r    == Shl52Mod(B, w)
      qodd == Shl52Mod(B, 2 * w) >= w
      up   == (2 * r > w) \/ (2 * r = w /\ qodd)
  IN IF up THEN w - r ELSE 0 - r

FloatScale(x, b, w) ==
  LET k     == ShiftFor(b, w)
      delta == QuotientDelta(b, w)
      T     == x * b
      N     == T \div w
  IN IF T % w # 0 THEN N
     ELSE IF delta >= 0 THEN N
     ELSE IF 4 * x * (0 - delta) <= w * Pow2(k + CeilLog2(N)) THEN N
     ELSE N - 1

\* math.Min(ratioX, ratioY) selects the pair (bound, side) of the smaller
\* quotient; correctly rounded quotients compare as the exact ones do.
RatioXIsMin(width, height, maxWidth, maxHeight) ==
  maxWidth * height <= maxHeight * width

\* resizeImageIfTooLarge: the dimensions it computes and whether it resized
resizeDims(width, height, maxWidth, maxHeight) ==
  IF width > maxWidth \/ height > maxHeight
  THEN LET b == IF RatioXIsMin(width, height, maxWidth, maxHeight)
                THEN maxWidth ELSE maxHeight
           w == IF RatioXIsMin(width, height, maxWidth, maxHeight)
                THEN width ELSE height
       IN [resized |-> TRUE,
           width   |-> FloatScale(width, b, w),
           height  |-> FloatScale(height, b, w)]
  ELSE [resized |-> FALSE, width |-> width, height |-> height]

(***************************************************************************)
(* Inputs and collaborators.                                               *)
(***************************************************************************)
\* characters the size token is drawn from
TokAlphabet == {"0", "3", "x", "a"}

Tokens == UNION {[1..n -> TokAlphabet] : n \in 0..MaxTokLen}

\* image keys of crop requests (path separators are "/" atoms)
ImageKeys == {<<>>, <<"a.png">>, <<"d", "/", "a.png">>}

\* values of the numeric environment parameters: a number, or unset
CropConfigs ==
  { [MAX_WIDTH |-> <<"4">>, MAX_HEIGHT |-> <<"3", "0">>],
    [MAX_WIDTH |-> <<>>,    MAX_HEIGHT |-> <<"3", "0">>],
    [MAX_WIDTH |-> <<"4">>, MAX_HEIGHT |-> <<"a">>] }

UploadConfigs ==
  { [MAX_BYTES |-> <<"2">>, MAX_WIDTH |-> <<"4">>, MAX_HEIGHT |-> <<"3">>],
    [MAX_BYTES |-> <<>>,    MAX_WIDTH |-> <<"4">>, MAX_HEIGHT |-> <<"3">>],
    [MAX_BYTES |-> <<"2">>, MAX_WIDTH |-> <<"a">>, MAX_HEIGHT |-> <<"3">>],
    [MAX_BYTES |-> <<"2">>, MAX_WIDTH |-> <<"4">>, MAX_HEIGHT |-> <<>>] }

\* objects the Blob Store may hold: leading bytes, byte count, pixel grid
Magics == {"\\x89PNG", "\\xFF\\xD8\\xFF", "GIF8"}

Grids == {<<3, 2>>, <<8, 4>>}

Assets ==
  { [magic |-> m, numBytes |-> n, w |-> g[1], h |-> g[2]] :
      m \in Magics, n \in {2, 3}, g \in Grids }

NoAsset == [magic |-> "", numBytes |-> 0, w |-> 0, h |-> 0]

\* The collaborators' behaviour during one run: the first call that fails
\* (none, os.Create, the download with its S3 error code, the read of the
\* local file, the decode, the save, the PutObject, the Stat, the SendMessage)
\* and the object a successful download delivers.
DownloadFaults == {"NoSuchKey", "AccessDenied"}

LateFaults == {"none", "read", "open", "save", "put", "stat", "send"}

Worlds(late) ==
  { [fault |-> f, asset |-> NoAsset] : f \in {"create"} \cup DownloadFaults }
    \cup { [fault |-> f, asset |-> a] : f \in late, a \in Assets }

NoWorld == [fault |-> "unused", asset |-> NoAsset]

(***************************************************************************)
(* The run record and its effects.                                         *)
(***************************************************************************)
NoFile == [path |-> <<>>, created |-> FALSE, open |-> FALSE, closes |-> 0,
           content |-> [orig |-> FALSE, asset |-> NoAsset]]

Run0(v) == [ret |-> FALSE, trace |-> <<>>, file |-> NoFile, v |-> v]

Emit(s, op, a, b) == [s EXCEPT !.trace = Append(@, [op |-> op, a |-> a, b |-> b])]

\* logger.Errorf / logger.Error
LogError(s, msg) == Emit(s, "log", msg, <<>>)

\* the handler's return statement
Return(s) == [s EXCEPT !.ret = TRUE]

ServerErrorBody == [error |-> <<"Server error">>]

\* chi-routed services: generateResponse writes status and body to w
generateResponse(s, statusCode, body) == Emit(s, "respond", statusCode, body)

\* chi-routed services: userErrorResponse(w, code, errorMessage)
userErrorResponse(s, code, errorMessage) ==
  generateResponse(s, code, [error |-> errorMessage])

\* chi-routed services: serverErrorResponse(w)
serverErrorResponse(s) == generateResponse(s, 500, ServerErrorBody)

\* Lambda-native handlers: generateResponse builds the Response returned
lambdaResponse(s, statusCode, body) == Return(Emit(s, "respond", statusCode, body))

\* Lambda-native handlers: return userErrorResponse(code, message)
lambdaUserError(s, code, errorMessage) ==
  lambdaResponse(s, code, [error |-> errorMessage])

\* the error the run logged last
LastLogged(s) ==
  LET logs == {i \in 1..Len(s.trace) : s.trace[i].op = "log"}
  IN s.trace[CHOOSE i \in logs : \A j \in logs : j <= i].a

\* Lambda-native handlers: return serverErrorResponse(err).  It returns the
\* 500 Response together with err itself, the error the handler has just
\* logged, as the invocation's error.
lambdaServerError(s) ==
  Return(Emit(Emit(s, "respond", 500, ServerErrorBody), "fail", LastLogged(s), <<>>))

(***************************************************************************)
(* Helpers shared (as copies) by the transforming handlers.                *)
(***************************************************************************)
\* os.Create(localFile): creates or truncates the file and opens it
osCreate(s, localFile, w) ==
  IF w.fault = "create" THEN Emit(s, "create", localFile, "error")
  ELSE [Emit(s, "create", localFile, "ok") EXCEPT
          !.file = [path |-> localFile, created |-> TRUE, open |-> TRUE,
                    closes |-> 0,
                    content |-> [orig |-> FALSE, asset |-> NoAsset]]]

\* close closes a file and logs any errors
close(s) ==
  [Emit(s, "close", s.file.path, <<>>) EXCEPT
     !.file.open = FALSE, !.file.closes = @ + 1]

\* the error string of a failed download, <<>> for nil
DownloadError(w) ==
  IF w.fault = "NoSuchKey"
  THEN <<"NoSuchKey", ": The specified key does not exist.">>
  ELSE IF w.fault = "AccessDenied" THEN <<"AccessDenied", ": Access Denied">>
  ELSE <<>>

\* downloadFile downloads a file from an S3 bucket into the local file
downloadFile(s, bucketName, fileKey, w) ==
  LET s1 == Emit(s, "download", bucketName, fileKey)
  IN IF DownloadError(w) # <<>> THEN s1
     ELSE [s1 EXCEPT !.file.content = [orig |-> TRUE, asset |-> w.asset]]

\* the byte count downloadFile returns
DownloadedBytes(w) == IF DownloadError(w) # <<>> THEN 0 ELSE w.asset.numBytes

\* http.DetectContentType on the leading bytes
DetectContentType(magic) ==
  CASE magic = "\\x89PNG" -> "image/png"
    [] magic = "\\xFF\\xD8\\xFF" -> "image/jpeg"
    [] magic = "GIF8" -> "image/gif"
    [] OTHER -> "application/octet-stream"

\* getFileType detects the mime type of the given file
getFileType(s, w) ==
  IF w.fault = "read" \/ s.file.content.asset.numBytes = 0
  THEN [err |-> TRUE, fileType |-> ""]
  ELSE [err |-> FALSE, fileType |-> DetectContentType(s.file.content.asset.magic)]

\* imaging.Open(localFile): decodes the local file into a pixel grid
imagingOpen(s, w) ==
  IF w.fault = "open" THEN [err |-> TRUE, w |-> 0, h |-> 0]
  ELSE [err |-> FALSE, w |-> s.file.content.asset.w, h |-> s.file.content.asset.h]

\* byte count of an encoded pixel grid
EncodedSize(w, h) == w * h + 1

\* imaging.Save returns an error: the file cannot be written, or the grid is
\* empty (the PNG encoder rejects an image without pixels; every local file
\* of the model is named .png)
SaveFails(width, height, w) == w.fault = "save" \/ width = 0 \/ height = 0

\* imaging.Save(img, localFile): re-encodes the grid over the local file
\* (the leading bytes are kept: the format follows the file name)
imagingSave(s, width, height, w) ==
  IF SaveFails(width, height, w) THEN Emit(s, "save", s.file.path, "error")
  ELSE [Emit(s, "save", s.file.path, "ok") EXCEPT
          !.file.content =
             [orig |-> FALSE,
              asset |-> [magic |-> s.file.content.asset.magic,
                         numBytes |-> EncodedSize(width, height),
                         w |-> width, h |-> height]]]

\* uploadFile uploads the local file to an S3 bucket
uploadFile(s, bucketName, fileKey, fileType, w) ==
  Emit(s, "upload",
       [bucket |-> bucketName, key |-> fileKey, contentType |-> fileType],
       [content |-> s.file.content, result |-> IF w.fault = "put" THEN "error" ELSE "ok"])

(***************************************************************************)
(* image-serve, chi-routed: GetResizeCrop, routed by size and key.         *)
(* The request is its RequestURI "/crop/" size "/" key.                    *)
(***************************************************************************)
CropURI(size, key) == <<"/crop/">> \o size \o <<"/">> \o key

\* chi.URLParam(r, "size"): the path segment after "/crop/"
URLParamSize(uri) ==
  LET rest == Tail(uri)
      p    == IndexOf(rest, "/")
  IN IF p = 0 THEN rest ELSE SubSeq(rest, 1, p - 1)

\* rePath.ReplaceAllString(r.RequestURI, "") with rePath = ^/crop/\d+x\d+/
RePathStrip(uri) ==
  LET rest == Tail(uri)
      p    == IndexOf(rest, "/")
  IN IF Len(uri) > 0 /\ uri[1] = "/crop/" /\ p > 0 /\ MatchSize(SubSeq(rest, 1, p - 1))
     THEN SubSeq(rest, p + 1, Len(rest))
     ELSE uri

CropLocals ==
  [maxWidth |-> 0, maxHeight |-> 0, size |-> <<>>, imageKey |-> <<>>,
   width |-> 0, height |-> 0, resizedFileKey |-> <<>>, localFile |-> <<>>,
   numBytes |-> 0, fileType |-> "", imgW |-> 0, imgH |-> 0]

\* get environment parameters
CropChiEnv(s, cfg) ==
  LET mw == Atoi(cfg.MAX_WIDTH)
      mh == Atoi(cfg.MAX_HEIGHT)
  IN IF mw.err
     THEN Return(serverErrorResponse(LogError(s, <<"Could not convert MAX_WIDTH to int">>)))
     ELSE IF mh.err
     THEN Return(serverErrorResponse(LogError(s, <<"Could not convert MAX_HEIGHT to int">>)))
     ELSE [s EXCEPT !.v.maxWidth = mw.val, !.v.maxHeight = mh.val]

\* get path parameters
CropChiParams(s, uri) ==
  IF s.ret THEN s
  ELSE [s EXCEPT !.v.size = URLParamSize(uri), !.v.imageKey = RePathStrip(uri)]

\* a sanity check that rejects only when both parameters are empty
CropChiSanityMutant(s) ==
  IF s.ret THEN s
  ELSE IF s.v.size = <<>> /\ s.v.imageKey = <<>>
  THEN LET errorMessage ==
             <<"Missing parameters, cannot complete request; size: ">> \o s.v.size
               \o <<", image_key: ">> \o s.v.imageKey
       IN Return(userErrorResponse(LogError(s, errorMessage), 400, errorMessage))
  ELSE s

\* simple sanity check
CropChiSanity(s) ==
  IF s.ret THEN s
  ELSE IF s.v.size = <<>> \/ s.v.imageKey = <<>>
  THEN LET errorMessage ==
             <<"Missing parameters, cannot complete request; size: ">> \o s.v.size
               \o <<", image_key: ">> \o s.v.imageKey
       IN Return(userErrorResponse(LogError(s, errorMessage), 400, errorMessage))
  ELSE s

\* check size parameter is correct format
CropChiFormat(s) ==
  IF s.ret THEN s
  ELSE IF ~MatchSize(s.v.size)
  THEN LET errorMessage ==
             <<"Bad parameter format, cannot complete request; size: ">> \o s.v.size
       IN Return(userErrorResponse(LogError(s, errorMessage), 400, errorMessage))
  ELSE s

\* parse image dimensions from path
CropChiParse(s) ==
  IF s.ret THEN s
  ELSE LET sizes  == Split(s.v.size, "x")
           width  == Atoi(sizes[1])
           height == Atoi(sizes[2])
       IN IF width.err
          THEN Return(userErrorResponse(
                        LogError(s, <<"Could not convert sizes[0] to int">>),
                        400, <<"Could not convert width to int.">>))
          ELSE IF height.err
          THEN Return(userErrorResponse(
                        LogError(s, <<"Could not convert sizes[1] to int">>),
                        400, <<"Could not convert height to int.">>))
          ELSE [s EXCEPT !.v.width = width.val, !.v.height = height.val]

\* file names whose destination key leaves the size token out
CropChiNamesMutant(s) ==
  IF s.ret THEN s
  ELSE [s EXCEPT
          !.v.resizedFileKey = <<"crop/">> \o s.v.imageKey,
          !.v.localFile = <<"/tmp/">> \o Base(s.v.imageKey)]

\* assign file names
CropChiNames(s) ==
  IF s.ret THEN s
  ELSE [s EXCEPT
          !.v.resizedFileKey = <<"crop/">> \o s.v.size \o <<"/">> \o s.v.imageKey,
          !.v.localFile = <<"/tmp/">> \o Base(s.v.imageKey)]

\* everything GetResizeCrop does before it touches a collaborator
CropChiValidate(uri, cfg) ==
  CropChiNames(CropChiParse(CropChiFormat(CropChiSanity(CropChiParams(CropChiEnv(Run0(
    CropLocals), cfg), uri)))))

\* create local temp file
CropChiCreate(s, w) ==
  IF s.ret THEN s
  ELSE LET s1 == osCreate(s, s.v.localFile, w)
       IN IF w.fault = "create"
          THEN Return(serverErrorResponse(LogError(s1, <<"os.Create() error">>)))
          ELSE s1

\* download file from S3
CropChiDownload(s, w) ==
  IF s.ret THEN s
  ELSE LET s1  == downloadFile(s, "AWS_S3_BUCKET_SOURCE", s.v.imageKey, w)
           err == DownloadError(w)
       IN IF err # <<>>
          THEN LET s2 == close(LogError(s1, <<"S3 downloader error">> \o err))
               IN IF HasPrefix(err, "NoSuchKey")
                  THEN Return(userErrorResponse(s2, 404, <<"Not found.">>))
                  ELSE Return(serverErrorResponse(s2))
          ELSE s1

\* detect file type, reject bad file types
CropChiFileType(s, w) ==
  IF s.ret THEN s
  ELSE LET ft == getFileType(s, w)
           s1 == Emit(s, "sniff", IF ft.err THEN "error" ELSE ft.fileType, <<>>)
       IN IF ft.err
          THEN Return(serverErrorResponse(close(LogError(s1, <<"File read error">>))))
          ELSE IF ~contains(validImageFormats, ft.fileType)
          THEN LET errorMessage == <<"Unsupported file type: ", ft.fileType>>
               IN Return(userErrorResponse(close(LogError(s1, errorMessage)),
                                           400, errorMessage))
          ELSE [s1 EXCEPT !.v.fileType = ft.fileType]

\* open image
CropChiOpen(s, w) ==
  IF s.ret THEN s
  ELSE LET img == imagingOpen(s, w)
           s1  == Emit(s, "decode", IF img.err THEN "error" ELSE "ok", <<>>)
       IN IF img.err
          THEN Return(serverErrorResponse(close(LogError(s1, <<"Failed to open image">>))))
          ELSE [s1 EXCEPT !.v.imgW = img.w, !.v.imgH = img.h]

\* imaging.Fill(img, w, h, Center, Lanczos): the grid it returns
FillGrid(width, height) ==
  IF width <= 0 \/ height <= 0 THEN <<0, 0>> ELSE <<width, height>>

\* resizeImageCrop resizes an image, cropping to widthxheight
resizeImageCrop(s, widthIn, heightIn, w) ==
  LET g == FillGrid(widthIn, heightIn)
  IN imagingSave(Emit(s, "resize", widthIn, heightIn), g[1], g[2], w)

\* resize image
CropChiResize(s, w) ==
  IF s.ret THEN s
  ELSE LET width  == min(s.v.maxWidth, s.v.width)
           height == min(s.v.maxHeight, s.v.height)
           s1 == resizeImageCrop([s EXCEPT !.v.width = width, !.v.height = height],
                                 width, height, w)
       IN IF SaveFails(FillGrid(width, height)[1], FillGrid(width, height)[2], w)
          THEN Return(serverErrorResponse(close(LogError(s1, <<"Failed to resize image">>))))
          ELSE s1

\* upload to public bucket
CropChiUpload(s, w) ==
  IF s.ret THEN s
  ELSE LET s1 == uploadFile(s, "AWS_S3_BUCKET_DESTINATION", s.v.resizedFileKey,
                            s.v.fileType, w)
       IN IF w.fault = "put"
          THEN Return(serverErrorResponse(close(LogError(s1, <<"Failed to upload file">>))))
          ELSE s1

\* close(file); redirectResponse(w, r, redirectURL)
CropChiRedirect(s) ==
  IF s.ret THEN s
  ELSE LET redirectURL ==
             <<"http://", "AWS_S3_BUCKET_DESTINATION", ".s3-website.", "REGION",
               ".amazonaws.com/">> \o s.v.resizedFileKey
       IN Return(Emit(close(s), "respond", 301, [location |-> redirectURL]))

\* GetResizeCrop resizes an image and saves to an S3 bucket
GetResizeCropRun(uri, cfg, w) ==
  CropChiRedirect(CropChiUpload(CropChiResize(CropChiOpen(CropChiFileType(
    CropChiDownload(CropChiCreate(CropChiValidate(uri, cfg), w), w), w), w), w), w))

(***************************************************************************)
(* image-serve, Lambda-native: image-resize-crop Handler.                  *)
(* The request is its path parameters size and image_key.                  *)
(***************************************************************************)
\* get environment parameters
CropLambdaEnv(s, cfg) ==
  LET mw == Atoi(cfg.MAX_WIDTH)
      mh == Atoi(cfg.MAX_HEIGHT)
  IN IF mw.err
     THEN lambdaServerError(LogError(s, <<"Could not convert MAX_WIDTH to int">>))
     ELSE IF mh.err
     THEN lambdaServerError(LogError(s, <<"Could not convert MAX_HEIGHT to int">>))
     ELSE [s EXCEPT !.v.maxWidth = mw.val, !.v.maxHeight = mh.val]

\* get path parameters
CropLambdaParams(s, req) ==
  IF s.ret THEN s
  ELSE [s EXCEPT !.v.size = req.size, !.v.imageKey = req.image_key]

\* simple sanity check
CropLambdaSanity(s) ==
  IF s.ret THEN s
  ELSE IF s.v.size = <<>> \/ s.v.imageKey = <<>>
  THEN LET errorMessage ==
             <<"Missing parameters, cannot complete request; size: ">> \o s.v.size
               \o <<", image_key: ">> \o s.v.imageKey
       IN lambdaUserError(LogError(s, errorMessage), 400, errorMessage)
  ELSE s

\* check size parameter is correct format
CropLambdaFormat(s) ==
  IF s.ret THEN s
  ELSE IF ~MatchSize(s.v.size)
  THEN LET errorMessage ==
             <<"Bad parameter format, cannot complete request; size: ">> \o s.v.size
       IN lambdaUserError(LogError(s, errorMessage), 400, errorMessage)
  ELSE s

\* parse image dimensions from path
CropLambdaParse(s) ==
  IF s.ret THEN s
  ELSE LET sizes  == Split(s.v.size, "x")
           width  == Atoi(sizes[1])
           height == Atoi(sizes[2])
       IN IF width.err
          THEN lambdaUserError(LogError(s, <<"Could not convert sizes[0] to int">>),
                               400, <<"Could not convert width to int.">>)
          ELSE IF height.err
          THEN lambdaUserError(LogError(s, <<"Could not convert sizes[1] to int">>),
                               400, <<"Could not convert height to int.">>)
          ELSE [s EXCEPT !.v.width = width.val, !.v.height = height.val]

\* assign file names
CropLambdaNames(s) ==
  IF s.ret THEN s
  ELSE [s EXCEPT
          !.v.resizedFileKey = <<"crop/">> \o s.v.size \o <<"/">> \o s.v.imageKey,
          !.v.localFile = <<"/tmp/">> \o Base(s.v.imageKey)]

\* everything the handler does before it touches a collaborator
CropLambdaValidate(req, cfg) ==
  CropLambdaNames(CropLambdaParse(CropLambdaFormat(CropLambdaSanity(CropLambdaParams(
    CropLambdaEnv(Run0(CropLocals), cfg), req)))))

\* create local temp file
CropLambdaCreate(s, w) ==
  IF s.ret THEN s
  ELSE LET s1 == osCreate(s, s.v.localFile, w)
       IN IF w.fault = "create"
          THEN lambdaServerError(LogError(s1, <<"os.Create() error">>))
          ELSE s1

\* download file from S3
CropLambdaDownload(s, w) ==
  IF s.ret THEN s
  ELSE LET s1  == downloadFile(s, "AWS_S3_BUCKET_SOURCE", s.v.imageKey, w)
           err == DownloadError(w)
       IN IF err # <<>>
          THEN lambdaServerError(close(LogError(s1, <<"S3 downloader error">> \o err)))
          ELSE s1

\* detect file type, reject bad file types
CropLambdaFileType(s, w) ==
  IF s.ret THEN s
  ELSE LET ft == getFileType(s, w)
           s1 == Emit(s, "sniff", IF ft.err THEN "error" ELSE ft.fileType, <<>>)
       IN IF ft.err
          THEN lambdaServerError(close(LogError(s1, <<"File read error">>)))
          ELSE IF ~contains(validImageFormats, ft.fileType)
          THEN LET errorMessage == <<"Unsupported file type: ", ft.fileType>>
               IN lambdaUserError(close(LogError(s1, errorMessage)), 400, errorMessage)
          ELSE [s1 EXCEPT !.v.fileType = ft.fileType]

\* open image
CropLambdaOpen(s, w) ==
  IF s.ret THEN s
  ELSE LET img == imagingOpen(s, w)
           s1  == Emit(s, "decode", IF img.err THEN "error" ELSE "ok", <<>>)
       IN IF img.err
          THEN lambdaServerError(close(LogError(s1, <<"Failed to open image">>)))
          ELSE [s1 EXCEPT !.v.imgW = img.w, !.v.imgH = img.h]

\* resize image (resizeImage is the Lambda-native copy of resizeImageCrop)
CropLambdaResize(s, w) ==
  IF s.ret THEN s
  ELSE LET width  == min(s.v.maxWidth, s.v.width)
           height == min(s.v.maxHeight, s.v.height)
           s1 == resizeImageCrop([s EXCEPT !.v.width = width, !.v.height = height],
                                 width, height, w)
       IN IF SaveFails(FillGrid(width, height)[1], FillGrid(width, height)[2], w)
          THEN lambdaServerError(close(LogError(s1, <<"Failed to resize image">>)))
          ELSE s1

\* upload to public bucket
CropLambdaUpload(s, w) ==
  IF s.ret THEN s
  ELSE LET s1 == uploadFile(s, "AWS_S3_BUCKET_DESTINATION", s.v.resizedFileKey,
                            s.v.fileType, w)
       IN IF w.fault = "put"
          THEN lambdaServerError(close(LogError(s1, <<"Failed to upload file">>)))
          ELSE s1

\* close(file); return redirectResponse(redirectURL), nil
CropLambdaRedirect(s) ==
  IF s.ret THEN s
  ELSE LET redirectURL ==
             <<"http://", "AWS_S3_BUCKET_DESTINATION", ".s3-website-", "REGION",
               ".amazonaws.com/">> \o s.v.resizedFileKey
       IN lambdaResponse(close(s), 301, [location |-> redirectURL])

\* Handler of image-resize-crop
CropLambdaRun(req, cfg, w) ==
  CropLambdaRedirect(CropLambdaUpload(CropLambdaResize(CropLambdaOpen(
    CropLambdaFileType(CropLambdaDownload(CropLambdaCreate(CropLambdaValidate(
    req, cfg), w), w), w), w), w), w))

(***************************************************************************)
(* image-upload: finalize-upload, helpers shared (as copies) by the        *)
(* chi-routed, Lambda-native and SQS-driven variants.                      *)
(***************************************************************************)
FileIds == {<<>>, <<"90546589">>}

FileExtensions == {<<>>, <<"png">>}

Directories == {<<>>, <<"test">>}

RequestedWidths == {0 - 1, 0, 2, 5}

RequestedHeights == {0, 2}

\* request bodies: a JSON object, a syntax error, or a width of the wrong type
RequestBodies ==
  { [json |-> "object", directory |-> d, file_extension |-> e, file_id |-> f,
     height |-> h, width |-> w] :
      d \in Directories, e \in FileExtensions, f \in FileIds,
      h \in RequestedHeights, w \in RequestedWidths }
  \cup
  { [json |-> j, directory |-> <<>>, file_extension |-> <<>>, file_id |-> <<>>,
     height |-> 0, width |-> 0] : j \in {"syntax", "type"} }

UploadLocals ==
  [maxBytes |-> 0, maxWidth |-> 0, maxHeight |-> 0,
   directory |-> <<>>, file_extension |-> <<>>, file_id |-> <<>>,
   reqWidth |-> 0, reqHeight |-> 0, callback_url |-> <<>>,
   fileKey |-> <<>>, localFile |-> <<>>,
   numBytes |-> 0, fileType |-> "", imgW |-> 0, imgH |-> 0,
   finalWidth |-> 0, finalHeight |-> 0, finalNumBytes |-> 0]

\* a key that drops the directory
FileKeyMutant(directory, fileID, fileExtension) ==
  fileID \o <<".">> \o fileExtension

\* assign file names
FileKey(directory, fileID, fileExtension) ==
  IF directory # <<>>
  THEN directory \o <<"/">> \o fileID \o <<".">> \o fileExtension
  ELSE fileID \o <<".">> \o fileExtension

LocalFile(fileID, fileExtension) == <<"/tmp/">> \o fileID \o <<".">> \o fileExtension

\* resize image if too large: the bound for one side
NewMax(configured, requested) ==
  IF requested > 0 THEN min(configured, requested) ELSE configured

\* imaging.Resize(img, width, height, Lanczos): the grid it returns
ResizeGrid(srcW, srcH, width, height) ==
  IF width < 0 \/ height < 0 \/ (width = 0 /\ height = 0) \/ srcW <= 0 \/ srcH <= 0
  THEN <<0, 0>>
  ELSE IF width = 0
  THEN LET r == (2 * height * srcW + srcH) \div (2 * srcH)
       IN <<IF r < 1 THEN 1 ELSE r, height>>
  ELSE IF height = 0
  THEN LET r == (2 * width * srcH + srcW) \div (2 * srcW)
       IN <<width, IF r < 1 THEN 1 ELSE r>>
  ELSE <<width, height>>

\* resizeImageIfTooLarge resizes an image if the width or height dimensions
\* are too large; the run's v.finalWidth, v.finalHeight are what it returns
resizeImageIfTooLarge(s, maxWidth, maxHeight, w) ==
  LET d  == resizeDims(s.v.imgW, s.v.imgH, maxWidth, maxHeight)
      s1 == [s EXCEPT !.v.finalWidth = d.width, !.v.finalHeight = d.height]
  IN IF d.resized
     THEN LET g == ResizeGrid(s.v.imgW, s.v.imgH, d.width, d.height)
          IN imagingSave(Emit(s1, "resize", d.width, d.height), g[1], g[2], w)
     ELSE s1

\* the error resizeImageIfTooLarge returns
ResizeFailed(s, maxWidth, maxHeight, w) ==
  LET d == resizeDims(s.v.imgW, s.v.imgH, maxWidth, maxHeight)
      g == ResizeGrid(s.v.imgW, s.v.imgH, d.width, d.height)
  IN d.resized /\ SaveFails(g[1], g[2], w)

(***************************************************************************)
(* image-upload, chi-routed: PostProcessUpload.                            *)
(***************************************************************************)
\* get environment parameters
ProcessEnv(s, cfg) ==
  LET mb == Atoi(cfg.MAX_BYTES)
      mw == Atoi(cfg.MAX_WIDTH)
      mh == Atoi(cfg.MAX_HEIGHT)
  IN IF mb.err
     THEN Return(serverErrorResponse(LogError(s, <<"Could not convert MAX_BYTES to int64">>)))
     ELSE IF mw.err
     THEN Return(serverErrorResponse(LogError(s, <<"Could not convert MAX_WIDTH to int">>)))
     ELSE IF mh.err
     THEN Return(serverErrorResponse(LogError(s, <<"Could not convert MAX_HEIGHT to int">>)))
     ELSE [s EXCEPT !.v.maxBytes = mb.val, !.v.maxWidth = mw.val, !.v.maxHeight = mh.val]

\* get payload from request body
ProcessDecode(s, body) ==
  IF s.ret THEN s
  ELSE IF body.json # "object"
  THEN Return(serverErrorResponse(LogError(s, <<"Error unmarshalling request body">>)))
  ELSE [s EXCEPT !.v.directory = body.directory,
                 !.v.file_extension = body.file_extension,
                 !.v.file_id = body.file_id,
                 !.v.reqHeight = body.height,
                 !.v.reqWidth = body.width]

\* simple sanity check
ProcessSanity(s) ==
  IF s.ret THEN s
  ELSE IF s.v.file_id = <<>> \/ s.v.file_extension = <<>>
  THEN LET errorMessage ==
             <<"Missing parameters, cannot complete request; file_id: ">> \o s.v.file_id
               \o <<", file_extension: ">> \o s.v.file_extension
       IN Return(userErrorResponse(LogError(s, errorMessage), 400, errorMessage))
  ELSE s

\* assign file names
ProcessNames(s) ==
  IF s.ret THEN s
  ELSE [s EXCEPT
          !.v.fileKey = FileKey(s.v.directory, s.v.file_id, s.v.file_extension),
          !.v.localFile = LocalFile(s.v.file_id, s.v.file_extension)]

\* everything PostProcessUpload does before it touches a collaborator
ProcessValidate(body, cfg) ==
  ProcessNames(ProcessSanity(ProcessDecode(ProcessEnv(Run0(UploadLocals), cfg), body)))

\* create local temp file
ProcessCreate(s, w) ==
  IF s.ret THEN s
  ELSE LET s1 == osCreate(s, s.v.localFile, w)
       IN IF w.fault = "create"
          THEN Return(serverErrorResponse(LogError(s1, <<"os.Create() error">>)))
          ELSE s1

\* download file from S3
ProcessDownload(s, w) ==
  IF s.ret THEN s
  ELSE LET s1  == downloadFile(s, "AWS_S3_BUCKET_UPLOAD", s.v.fileKey, w)
           err == DownloadError(w)
       IN IF err # <<>>
          THEN LET s2 == close(LogError(s1, <<"S3 downloader error">> \o err))
               IN IF HasPrefix(err, "NoSuchKey")
                  THEN Return(userErrorResponse(s2, 404, <<"Not found.">>))
                  ELSE Return(serverErrorResponse(s2))
          ELSE [s1 EXCEPT !.v.numBytes = DownloadedBytes(w)]

\* reject large files
ProcessSize(s) ==
  IF s.ret THEN s
  ELSE LET s1 == Emit(s, "sizecheck", s.v.numBytes, s.v.maxBytes)
       IN IF s.v.numBytes > s.v.maxBytes
          THEN LET errorMessage ==
                     <<"File is too large: ", ToString(s.v.numBytes), ", ">> \o s.v.fileKey
               IN Return(userErrorResponse(close(LogError(s1, errorMessage)),
                                           400, errorMessage))
          ELSE s1

\* detect file type, reject bad file types
ProcessFileType(s, w) ==
  IF s.ret THEN s
  ELSE LET ft == getFileType(s, w)
           s1 == Emit(s, "sniff", IF ft.err THEN "error" ELSE ft.fileType, <<>>)
       IN IF ft.err
          THEN Return(serverErrorResponse(close(LogError(s1, <<"File read error">>))))
          ELSE IF ~contains(validImageFormats, ft.fileType)
          THEN LET errorMessage ==
                     <<"Unsupported file type: ", ft.fileType, ", ">> \o s.v.fileKey
               IN Return(userErrorResponse(close(LogError(s1, errorMessage)),
                                           400, errorMessage))
          ELSE [s1 EXCEPT !.v.fileType = ft.fileType]

\* open image
ProcessOpen(s, w) ==
  IF s.ret THEN s
  ELSE LET img == imagingOpen(s, w)
           s1  == Emit(s, "decode", IF img.err THEN "error" ELSE "ok", <<>>)
       IN IF img.err
          THEN Return(serverErrorResponse(close(LogError(s1, <<"Failed to open image">>))))
          ELSE [s1 EXCEPT !.v.imgW = img.w, !.v.imgH = img.h]

\* resize image if too large
ProcessResize(s, w) ==
  IF s.ret THEN s
  ELSE LET newMaxWidth  == NewMax(s.v.maxWidth, s.v.reqWidth)
           newMaxHeight == NewMax(s.v.maxHeight, s.v.reqHeight)
           s1 == resizeImageIfTooLarge(s, newMaxWidth, newMaxHeight, w)
       IN IF ResizeFailed(s, newMaxWidth, newMaxHeight, w)
          THEN Return(serverErrorResponse(close(LogError(s1, <<"Failed to resize image">>))))
          ELSE s1

\* an upload step that tries a failed upload a second time
ProcessUploadMutant(s, w) ==
  IF s.ret THEN s
  ELSE LET s1 == uploadFile(s, "AWS_S3_BUCKET_PUBLIC", s.v.fileKey, s.v.fileType, w)
       IN IF w.fault = "put"
          THEN Return(serverErrorResponse(close(LogError(
                 uploadFile(s1, "AWS_S3_BUCKET_PUBLIC", s.v.fileKey, s.v.fileType, w),
                 <<"Failed to upload file">>))))
          ELSE s1

\* upload to public bucket
ProcessUpload(s, w) ==
  IF s.ret THEN s
  ELSE LET s1 == uploadFile(s, "AWS_S3_BUCKET_PUBLIC", s.v.fileKey, s.v.fileType, w)
       IN IF w.fault = "put"
          THEN Return(serverErrorResponse(close(LogError(s1, <<"Failed to upload file">>))))
          ELSE s1

\* a stat step that answers a failed Stat without closing the file
ProcessStatMutant(s, w) ==
  IF s.ret THEN s
  ELSE IF w.fault = "stat"
  THEN Return(serverErrorResponse(LogError(s, <<"Failed to stat file">>)))
  ELSE [s EXCEPT !.v.finalNumBytes = s.file.content.asset.numBytes]

\* get final file size
ProcessStat(s, w) ==
  IF s.ret THEN s
  ELSE IF w.fault = "stat"
  THEN Return(serverErrorResponse(close(LogError(s, <<"Failed to stat file">>))))
  ELSE [s EXCEPT !.v.finalNumBytes = s.file.content.asset.numBytes]

\* create response payload
ResponsePayload(s) ==
  [bucket |-> "AWS_S3_BUCKET_PUBLIC",
   directory |-> s.v.directory,
   file_extension |-> s.v.file_extension,
   file_id |-> s.v.file_id,
   height |-> s.v.finalWidth,
   size_bytes |-> s.v.finalNumBytes,
   width |-> s.v.finalHeight]

\* close(file); successResponse(w, 201, responseData)
ProcessRespond(s) ==
  IF s.ret THEN s
  ELSE LET s1 == close(s)
       IN Return(generateResponse(s1, 201, ResponsePayload(s1)))

\* PostProcessUpload moves an image from the upload bucket to the static bucket
PostProcessUploadRun(body, cfg, w) ==
  ProcessRespond(ProcessStat(ProcessUpload(ProcessResize(ProcessOpen(ProcessFileType(
    ProcessSize(ProcessDownload(ProcessCreate(ProcessValidate(
    body, cfg), w), w)), w), w), w), w), w))

(***************************************************************************)
(* image-upload, Lambda-native: the process-upload Handler.                *)
(***************************************************************************)
\* get environment parameters
ProcLambdaEnv(s, cfg) ==
  LET mb == Atoi(cfg.MAX_BYTES)
      mw == Atoi(cfg.MAX_WIDTH)
      mh == Atoi(cfg.MAX_HEIGHT)
  IN IF mb.err
     THEN lambdaServerError(LogError(s, <<"Could not convert MAX_BYTES to int64">>))
     ELSE IF mw.err
     THEN lambdaServerError(LogError(s, <<"Could not convert MAX_WIDTH to int">>))
     ELSE IF mh.err
     THEN lambdaServerError(LogError(s, <<"Could not convert MAX_HEIGHT to int">>))
     ELSE [s EXCEPT !.v.maxBytes = mb.val, !.v.maxWidth = mw.val, !.v.maxHeight = mh.val]

\* decode request body JSON
ProcLambdaDecode(s, body) ==
  IF s.ret THEN s
  ELSE IF body.json # "object"
  THEN lambdaServerError(LogError(s, <<"Error unmarshalling request body">>))
  ELSE [s EXCEPT !.v.directory = body.directory,
                 !.v.file_extension = body.file_extension,
                 !.v.file_id = body.file_id,
                 !.v.reqHeight = body.height,
                 !.v.reqWidth = body.width]

\* simple sanity check
ProcLambdaSanity(s) ==
  IF s.ret THEN s
  ELSE IF s.v.file_id = <<>> \/ s.v.file_extension = <<>>
  THEN LET errorMessage ==
             <<"Missing parameters, cannot complete request; file_id: ">> \o s.v.file_id
               \o <<", file_extension: ">> \o s.v.file_extension
       IN lambdaUserError(LogError(s, errorMessage), 400, errorMessage)
  ELSE s

\* assign file names
ProcLambdaNames(s) ==
  IF s.ret THEN s
  ELSE [s EXCEPT
          !.v.fileKey = FileKey(s.v.directory, s.v.file_id, s.v.file_extension),
          !.v.localFile = LocalFile(s.v.file_id, s.v.file_extension)]

\* everything the handler does before it touches a collaborator
ProcLambdaValidate(body, cfg) ==
  ProcLambdaNames(ProcLambdaSanity(ProcLambdaDecode(ProcLambdaEnv(Run0(UploadLocals), cfg), body)))

\* create local temp file
ProcLambdaCreate(s, w) ==
  IF s.ret THEN s
  ELSE LET s1 == osCreate(s, s.v.localFile, w)
       IN IF w.fault = "create"
          THEN lambdaServerError(LogError(s1, <<"os.Create() error">>))
          ELSE s1

\* download file from S3
ProcLambdaDownload(s, w) ==
  IF s.ret THEN s
  ELSE LET s1  == downloadFile(s, "AWS_S3_BUCKET_UPLOAD", s.v.fileKey, w)
           err == DownloadError(w)
       IN IF err # <<>>
          THEN LET s2 == close(LogError(s1, <<"S3 downloader error">> \o err))
               IN IF HasPrefix(err, "NoSuchKey")
                  THEN lambdaUserError(s2, 404, <<"Not found.">>)
                  ELSE lambdaServerError(s2)
          ELSE [s1 EXCEPT !.v.numBytes = DownloadedBytes(w)]

\* reject large files
ProcLambdaSize(s) ==
  IF s.ret THEN s
  ELSE LET s1 == Emit(s, "sizecheck", s.v.numBytes, s.v.maxBytes)
       IN IF s.v.numBytes > s.v.maxBytes
          THEN LET errorMessage ==
                     <<"File is too large: ", ToString(s.v.numBytes), ", ">> \o s.v.fileKey
               IN lambdaUserError(close(LogError(s1, errorMessage)), 400, errorMessage)
          ELSE s1

\* detect file type, reject bad file types
ProcLambdaFileType(s, w) ==
  IF s.ret THEN s
  ELSE LET ft == getFileType(s, w)
           s1 == Emit(s, "sniff", IF ft.err THEN "error" ELSE ft.fileType, <<>>)
       IN IF ft.err
          THEN lambdaServerError(close(LogError(s1, <<"File read error">>)))
          ELSE IF ~contains(validImageFormats, ft.fileType)
          THEN LET errorMessage ==
                     <<"Unsupported file type: ", ft.fileType, ", ">> \o s.v.fileKey
               IN lambdaUserError(close(LogError(s1, errorMessage)), 400, errorMessage)
          ELSE [s1 EXCEPT !.v.fileType = ft.fileType]

\* open image
ProcLambdaOpen(s, w) ==
  IF s.ret THEN s
  ELSE LET img == imagingOpen(s, w)
           s1  == Emit(s, "decode", IF img.err THEN "error" ELSE "ok", <<>>)
       IN IF img.err
          THEN lambdaServerError(close(LogError(s1, <<"Failed to open image">>)))
          ELSE [s1 EXCEPT !.v.imgW = img.w, !.v.imgH = img.h]

\* resize image if too large
ProcLambdaResize(s, w) ==
  IF s.ret THEN s
  ELSE LET newMaxWidth  == NewMax(s.v.maxWidth, s.v.reqWidth)
           newMaxHeight == NewMax(s.v.maxHeight, s.v.reqHeight)
           s1 == resizeImageIfTooLarge(s, newMaxWidth, newMaxHeight, w)
       IN IF ResizeFailed(s, newMaxWidth, newMaxHeight, w)
          THEN lambdaServerError(close(LogError(s1, <<"Failed to resize image">>)))
          ELSE s1

\* upload to public bucket
ProcLambdaUpload(s, w) ==
  IF s.ret THEN s
  ELSE LET s1 == uploadFile(s, "AWS_S3_BUCKET_PUBLIC", s.v.fileKey, s.v.fileType, w)
       IN IF w.fault = "put"
          THEN lambdaServerError(close(LogError(s1, <<"Failed to upload file">>)))
          ELSE s1

\* get final file size
ProcLambdaStat(s, w) ==
  IF s.ret THEN s
  ELSE IF w.fault = "stat"
  THEN lambdaServerError(close(LogError(s, <<"Failed to stat file">>)))
  ELSE [s EXCEPT !.v.finalNumBytes = s.file.content.asset.numBytes]

\* close(file); return successResponse(responseData)
ProcLambdaRespond(s) ==
  IF s.ret THEN s
  ELSE LET s1 == close(s)
       IN lambdaResponse(s1, 200, ResponsePayload(s1))

\* Handler of the Lambda-native process-upload function
ProcLambdaRun(body, cfg, w) ==
  ProcLambdaRespond(ProcLambdaStat(ProcLambdaUpload(ProcLambdaResize(ProcLambdaOpen(
    ProcLambdaFileType(ProcLambdaSize(ProcLambdaDownload(ProcLambdaCreate(
    ProcLambdaValidate(body, cfg), w), w)), w), w), w), w), w))

(***************************************************************************)
(* image-upload: upload-url (chi-routed GetUploadURL and the Lambda-native *)
(* Handler) and delete (chi-routed DeleteImage and the Lambda-native       *)
(* Handler).                                                               *)
(***************************************************************************)
\* extensionMap maps extensions to mime types
extensionMap ==
  [e \in {<<"png">>, <<"jpg">>, <<"jpeg">>} |->
     IF e = <<"png">> THEN "png" ELSE "jpeg"]

\* extensions of upload-url requests (<<>>: the parameter is absent)
QueryExtensions == {<<>>, <<"png">>, <<"jpg">>, <<"jpeg">>, <<"gif">>}

\* what the signing call does
SignWorlds == {[fault |-> f, asset |-> NoAsset] : f \in {"none", "sign"}}

UrlLocals == [directory |-> <<>>, extension |-> <<>>, extensionType |-> "",
              fileKey |-> <<>>, signedURL |-> <<>>]

\* generateFileKey generates a file key for storage in an S3 bucket
generateFileKey(extension, directory) ==
  IF directory = <<>>
  THEN <<"uuid", ".">> \o extension
  ELSE directory \o <<"/", "uuid", ".">> \o extension

\* generatePresignedURL generates a presigned upload URL for S3 bucket
generatePresignedURL(bucket, fileKey, extensionType, w) ==
  IF w.fault = "sign" THEN [err |-> TRUE, url |-> <<>>]
  ELSE [err |-> FALSE,
        url |-> <<"https://", bucket, "/">> \o fileKey
                  \o <<"?Content-Type=image/", extensionType>>]

\* get request parameters
UrlParams(s, req) ==
  [s EXCEPT !.v.directory = req.directory, !.v.extension = req.extension]

\* basic sanity test for extension (chi-routed)
UrlChiSanity(s) ==
  IF s.v.extension \notin DOMAIN extensionMap
  THEN LET errorMessage == <<"Unsupported extension: ">> \o s.v.extension
       IN userErrorResponse(LogError(s, errorMessage), 400, errorMessage)
  ELSE [s EXCEPT !.v.extensionType = extensionMap[s.v.extension]]

\* generate S3 file key (chi-routed)
UrlChiKey(s) ==
  IF s.ret THEN s
  ELSE [Emit(s, "keygen", s.v.extension, s.v.directory) EXCEPT
          !.v.fileKey = generateFileKey(s.v.extension, s.v.directory)]

\* generate a presigned upload URL (chi-routed)
UrlChiSign(s, w) ==
  IF s.ret THEN s
  ELSE LET r  == generatePresignedURL("AWS_S3_BUCKET_UPLOAD", s.v.fileKey,
                                      s.v.extensionType, w)
           s1 == [Emit(s, "sign", s.v.fileKey, s.v.extensionType) EXCEPT
                    !.v.signedURL = r.url]
       IN IF r.err
          THEN serverErrorResponse(LogError(s1, <<"Failed to sign request">>))
          ELSE s1

\* response (chi-routed)
UrlChiRespond(s) ==
  IF s.ret THEN s
  ELSE Return(generateResponse(s, 200,
                [upload_url |-> s.v.signedURL, file_key |-> s.v.fileKey]))

\* GetUploadURL retrieves a pre-signed S3 bucket upload URL
GetUploadURLRun(req, w) ==
  UrlChiRespond(UrlChiSign(UrlChiKey(UrlChiSanity(UrlParams(Run0(UrlLocals), req))), w))

\* basic sanity test for extension (Lambda-native)
UrlLambdaSanity(s) ==
  IF s.v.extension \notin DOMAIN extensionMap
  THEN LET errorMessage == <<"Unsupported extension: ">> \o s.v.extension
       IN lambdaUserError(LogError(s, errorMessage), 400, errorMessage)
  ELSE [s EXCEPT !.v.extensionType = extensionMap[s.v.extension]]

\* generate S3 file key (Lambda-native)
UrlLambdaKey(s) ==
  IF s.ret THEN s
  ELSE [Emit(s, "keygen", s.v.extension, s.v.directory) EXCEPT
          !.v.fileKey = generateFileKey(s.v.extension, s.v.directory)]

\* generate a presigned upload URL (Lambda-native)
UrlLambdaSign(s, w) ==
  IF s.ret THEN s
  ELSE LET r  == generatePresignedURL("AWS_S3_BUCKET_UPLOAD", s.v.fileKey,
                                      s.v.extensionType, w)
           s1 == [Emit(s, "sign", s.v.fileKey, s.v.extensionType) EXCEPT
                    !.v.signedURL = r.url]
       IN IF r.err
          THEN lambdaServerError(LogError(s1, <<"Failed to sign request">>))
          ELSE s1

\* response (Lambda-native)
UrlLambdaRespond(s) ==
  IF s.ret THEN s
  ELSE lambdaResponse(s, 200, [upload_url |-> s.v.signedURL, file_key |-> s.v.fileKey])

\* Handler of the Lambda-native upload-url function
UrlLambdaRun(req, w) ==
  UrlLambdaRespond(UrlLambdaSign(UrlLambdaKey(UrlLambdaSanity(UrlParams(Run0(UrlLocals), req))), w))

\* keys of delete requests
DeleteKeys == {<<>>, <<"test", "/", "90546589", ".", "png">>}

DeleteWorlds == {[fault |-> f, asset |-> NoAsset] : f \in {"none", "delete"}}

DeleteLocals == [imageKey |-> <<>>]

\* strings.Replace(r.RequestURI, "/image/delete/", "", 1)
DeleteURI(key) == <<"/image/delete/">> \o key

StripDeletePrefix(uri) ==
  LET i == IndexOf(uri, "/image/delete/")
  IN IF i = 0 THEN uri ELSE SubSeq(uri, 1, i - 1) \o SubSeq(uri, i + 1, Len(uri))

\* deleteObject deletes a file from an S3 bucket
deleteObject(s, bucketName, fileKey, w) ==
  Emit(s, "delete", [bucket |-> bucketName, key |-> fileKey],
       IF w.fault = "delete" THEN "error" ELSE "ok")

\* simple sanity check (chi-routed)
DeleteChiSanity(s) ==
  IF s.v.imageKey = <<>>
  THEN LET errorMessage ==
             <<"Missing parameters, cannot complete request; image_key: ">> \o s.v.imageKey
       IN userErrorResponse(LogError(s, errorMessage), 400, errorMessage)
  ELSE s

\* delete object (chi-routed)
DeleteChiObject(s, w) ==
  IF s.ret THEN s
  ELSE LET s1 == deleteObject(s, "AWS_S3_BUCKET_PUBLIC", s.v.imageKey, w)
       IN IF w.fault = "delete"
          THEN serverErrorResponse(LogError(s1, <<"Failed delete object">>))
          ELSE s1

\* response (chi-routed): successResponse(w, 204, nil)
DeleteChiRespond(s) ==
  IF s.ret THEN s ELSE Return(generateResponse(s, 204, "null"))

\* DeleteImage removes an image from the static S3 bucket
DeleteImageRun(uri, w) ==
  DeleteChiRespond(DeleteChiObject(DeleteChiSanity([Run0(
    DeleteLocals) EXCEPT !.v.imageKey = StripDeletePrefix(uri)]), w))

\* simple sanity check (Lambda-native)
DeleteLambdaSanity(s) ==
  IF s.v.imageKey = <<>>
  THEN LET errorMessage ==
             <<"Missing parameters, cannot complete request; image_key: ">> \o s.v.imageKey
       IN lambdaUserError(LogError(s, errorMessage), 400, errorMessage)
  ELSE s

\* delete object (Lambda-native)
DeleteLambdaObject(s, w) ==
  IF s.ret THEN s
  ELSE LET s1 == deleteObject(s, "AWS_S3_BUCKET_PUBLIC", s.v.imageKey, w)
       IN IF w.fault = "delete"
          THEN lambdaServerError(LogError(s1, <<"Failed delete object">>))
          ELSE s1

\* response (Lambda-native): return successResponse()
DeleteLambdaRespond(s) ==
  IF s.ret THEN s ELSE lambdaResponse(s, 204, "")

\* Handler of the Lambda-native delete function
DeleteLambdaRun(req, w) ==
  DeleteLambdaRespond(DeleteLambdaObject(DeleteLambdaSanity([Run0(
    DeleteLocals) EXCEPT !.v.imageKey = req.image_key]), w))

(***************************************************************************)
(* image-upload, queue-triggered: the upload-image Handler.  One run       *)
(* record is one iteration of the loop over sqsEvent.Records; its ret      *)
(* flag is the iteration's `continue`.                                      *)
(***************************************************************************)
CallbackURLs == {<<"https://example.com/cb">>}

\* message bodies: a JSON object or a syntax error
QueueMessages ==
  { [json |-> "object", directory |-> <<"test">>, file_extension |-> <<"png">>,
     file_id |-> f, callback_url |-> c, height |-> 0, width |-> w] :
      f \in FileIds, c \in CallbackURLs, w \in {0, 2} }
  \cup
  { [json |-> "syntax", directory |-> <<>>, file_extension |-> <<>>,
     file_id |-> <<>>, callback_url |-> <<>>, height |-> 0, width |-> 0] }

\* what the collaborators do during one iteration
QueueWorlds ==
  { w \in Worlds(LateFaults \ {"stat"}) :
      w.asset.magic # "\\xFF\\xD8\\xFF" /\ (w.asset.w = 8 => w.asset.numBytes = 2) }

\* `continue`
Continue(s) == Return(s)

\* get environment parameters; each failure returns err to the runtime
QueueEnv(s, cfg) ==
  LET mb == Atoi(cfg.MAX_BYTES)
      mw == Atoi(cfg.MAX_WIDTH)
      mh == Atoi(cfg.MAX_HEIGHT)
      Fail(msg) == Return(Emit(LogError(s, msg), "fail", msg, <<>>))
  IN IF mb.err THEN Fail(<<"Could not convert MAX_BYTES to int64">>)
     ELSE IF mw.err THEN Fail(<<"Could not convert MAX_WIDTH to int">>)
     ELSE IF mh.err THEN Fail(<<"Could not convert MAX_HEIGHT to int">>)
     ELSE [s EXCEPT !.v.maxBytes = mb.val, !.v.maxWidth = mw.val, !.v.maxHeight = mh.val]

\* decode message body JSON
QueueDecode(s, msg) ==
  IF s.ret THEN s
  ELSE IF msg.json # "object"
  THEN Continue(LogError(s, <<"Error unmarshalling message body">>))
  ELSE [s EXCEPT !.v.directory = msg.directory,
                 !.v.file_extension = msg.file_extension,
                 !.v.file_id = msg.file_id,
                 !.v.callback_url = msg.callback_url,
                 !.v.reqHeight = msg.height,
                 !.v.reqWidth = msg.width]

\* simple sanity check
QueueSanity(s) ==
  IF s.ret THEN s
  ELSE IF s.v.file_id = <<>> \/ s.v.file_extension = <<>>
  THEN Continue(LogError(s,
         <<"Missing parameters, cannot complete request; file_id: ">> \o s.v.file_id
           \o <<", file_extension: ">> \o s.v.file_extension))
  ELSE s

\* assign file names
QueueNames(s) ==
  IF s.ret THEN s
  ELSE [s EXCEPT
          !.v.fileKey = FileKey(s.v.directory, s.v.file_id, s.v.file_extension),
          !.v.localFile = LocalFile(s.v.file_id, s.v.file_extension)]

\* everything an iteration does before it touches a collaborator
QueueValidate(msg, cfg) ==
  QueueNames(QueueSanity(QueueDecode(QueueEnv(Run0(UploadLocals), cfg), msg)))

\* create local temp file
QueueCreate(s, w) ==
  IF s.ret THEN s
  ELSE LET s1 == osCreate(s, s.v.localFile, w)
       IN IF w.fault = "create"
          THEN Continue(LogError(s1, <<"os.Create() error">>))
          ELSE s1

\* a download step that leaves the local file open when the download fails
QueueDownloadMutant(s, w) ==
  IF s.ret THEN s
  ELSE LET s1  == downloadFile(s, "AWS_S3_BUCKET_UPLOAD", s.v.fileKey, w)
           err == DownloadError(w)
       IN IF err # <<>>
          THEN Continue(LogError(s1, <<"S3 downloader error">> \o err))
          ELSE [s1 EXCEPT !.v.numBytes = DownloadedBytes(w)]

\* download file from S3
QueueDownload(s, w) ==
  IF s.ret THEN s
  ELSE LET s1  == downloadFile(s, "AWS_S3_BUCKET_UPLOAD", s.v.fileKey, w)
           err == DownloadError(w)
       IN IF err # <<>>
          THEN Continue(close(LogError(s1, <<"S3 downloader error">> \o err)))
          ELSE [s1 EXCEPT !.v.numBytes = DownloadedBytes(w)]

\* detect file type, reject bad file types
QueueFileType(s, w) ==
  IF s.ret THEN s
  ELSE LET ft == getFileType(s, w)
           s1 == Emit(s, "sniff", IF ft.err THEN "error" ELSE ft.fileType, <<>>)
       IN IF ft.err
          THEN Continue(close(LogError(s1, <<"File read error">>)))
          ELSE IF ~contains(validImageFormats, ft.fileType)
          THEN Continue(close(LogError(s1,
                 <<"Unsupported file type: ", ft.fileType, ", ">> \o s.v.fileKey)))
          ELSE [s1 EXCEPT !.v.fileType = ft.fileType]

\* reject large files
QueueSize(s) ==
  IF s.ret THEN s
  ELSE LET s1 == Emit(s, "sizecheck", s.v.numBytes, s.v.maxBytes)
       IN IF s.v.numBytes > s.v.maxBytes
          THEN Continue(close(LogError(s1,
                 <<"File is too large: ", ToString(s.v.numBytes), ", ">> \o s.v.fileKey)))
          ELSE s1

\* open image
QueueOpen(s, w) ==
  IF s.ret THEN s
  ELSE LET img == imagingOpen(s, w)
           s1  == Emit(s, "decode", IF img.err THEN "error" ELSE "ok", <<>>)
       IN IF img.err
          THEN Continue(close(LogError(s1, <<"Failed to open image">>)))
          ELSE [s1 EXCEPT !.v.imgW = img.w, !.v.imgH = img.h]

\* resizeImageIfTooLarge of the queue handler: it returns the error only
resizeImageIfTooLargeErr(s, maxWidth, maxHeight, w) ==
  LET d == resizeDims(s.v.imgW, s.v.imgH, maxWidth, maxHeight)
  IN IF d.resized
     THEN LET g == ResizeGrid(s.v.imgW, s.v.imgH, d.width, d.height)
          IN imagingSave(Emit(s, "resize", d.width, d.height), g[1], g[2], w)
     ELSE s

\* resize image if too large
QueueResize(s, w) ==
  IF s.ret THEN s
  ELSE LET newMaxWidth  == NewMax(s.v.maxWidth, s.v.reqWidth)
           newMaxHeight == NewMax(s.v.maxHeight, s.v.reqHeight)
           s1 == resizeImageIfTooLargeErr(s, newMaxWidth, newMaxHeight, w)
       IN IF ResizeFailed(s, newMaxWidth, newMaxHeight, w)
          THEN Continue(close(LogError(s1, <<"Failed to resize image">>)))
          ELSE s1

\* an upload step that logs a failed upload and carries on
QueueUploadMutant(s, w) ==
  IF s.ret THEN s
  ELSE LET s1 == uploadFile(s, "AWS_S3_BUCKET_PUBLIC", s.v.fileKey, s.v.fileType, w)
       IN IF w.fault = "put"
          THEN LogError(s1, <<"Failed to upload file">>)
          ELSE s1

\* upload to public bucket
QueueUpload(s, w) ==
  IF s.ret THEN s
  ELSE LET s1 == uploadFile(s, "AWS_S3_BUCKET_PUBLIC", s.v.fileKey, s.v.fileType, w)
       IN IF w.fault = "put"
          THEN Continue(close(LogError(s1, <<"Failed to upload file">>)))
          ELSE s1

\* sendCallbackMessage sends an SQS message to the callback queue
sendCallbackMessage(s, queue, msg, w) ==
  Emit(s, "send", [queue |-> queue, body |-> msg],
       IF w.fault = "send" THEN "error" ELSE "ok")

\* close(file); send message to callback queue
QueueCallback(s, w) ==
  IF s.ret THEN s
  ELSE LET callbackMsg == [callback_url |-> s.v.callback_url,
                           bucket |-> "AWS_S3_BUCKET_PUBLIC",
                           directory |-> s.v.directory,
                           file_id |-> s.v.file_id,
                           file_extension |-> s.v.file_extension]
           s1 == sendCallbackMessage(close(s), "CALLBACK_QUEUE", callbackMsg, w)
       IN IF w.fault = "send"
          THEN Continue(LogError(s1, <<"Failed send callback message to queue">>))
          ELSE s1

\* one iteration of the loop over the messages from the queue
QueueRecordRun(msg, cfg, w) ==
  QueueCallback(QueueUpload(QueueResize(QueueOpen(QueueSize(QueueFileType(QueueDownload(
    QueueCreate(QueueValidate(msg, cfg), w), w), w)), w), w), w), w)

\* what became of a record: skipped, uploaded without callback, or sent
RecordOutcome(s) ==
  IF \E i \in 1..Len(s.trace) : s.trace[i].op = "send" /\ s.trace[i].b = "ok"
  THEN "sent"
  ELSE IF \E i \in 1..Len(s.trace) : s.trace[i].op = "upload" /\ s.trace[i].b.result = "ok"
  THEN "uploaded"
  ELSE "skipped"

(***************************************************************************)
(* Invocations.  An idle function instance takes one inbound event, runs   *)
(* its handler to completion and hands the result back to the runtime.     *)
(***************************************************************************)
\* the collaborators are consulted only by a run that gets past validation
WorldsFor(s, late) == IF s.ret THEN {NoWorld} ELSE Worlds(late)

Finished(name, req, cfg, w, s) ==
  /\ pc' = "done"
  /\ handler' = name
  /\ request' = req
  /\ config' = cfg
  /\ world' = w
  /\ trace' = s.trace
  /\ file' = s.file
  /\ vals' = s.v
  /\ UNCHANGED batch

CropFaults == LateFaults \ {"stat", "send"}

\* image-serve, chi-routed: GET /crop/{size}/{key}
GetResizeCrop ==
  /\ pc = "idle"
  /\ \E size \in Tokens, key \in ImageKeys, cfg \in CropConfigs :
       LET uri == CropURI(size, key)
       IN \E w \in WorldsFor(CropChiValidate(uri, cfg), CropFaults) :
            Finished("GetResizeCrop", [uri |-> uri, size |-> size, image_key |-> key], cfg, w,
                     GetResizeCropRun(uri, cfg, w))

\* image-serve, Lambda-native image-resize-crop
ImageResizeCropHandler ==
  /\ pc = "idle"
  /\ \E size \in Tokens, key \in ImageKeys, cfg \in CropConfigs :
       LET req == [size |-> size, image_key |-> key]
       IN \E w \in WorldsFor(CropLambdaValidate(req, cfg), CropFaults) :
            Finished("ImageResizeCropHandler", req, cfg, w,
                     CropLambdaRun(req, cfg, w))

NoBatch == [left |-> 0, done |-> <<>>]

Idle ==
  /\ pc = "idle"
  /\ handler = ""
  /\ request = <<>>
  /\ config = <<>>
  /\ world = NoWorld
  /\ trace = <<>>
  /\ file = NoFile
  /\ vals = <<>>
  /\ batch = NoBatch

\* lambda.Start: the invocation is over, the instance waits for the next event
NextInvocation ==
  /\ pc = "done"
  /\ pc' = "idle"
  /\ handler' = ""
  /\ request' = <<>>
  /\ config' = <<>>
  /\ world' = NoWorld
  /\ trace' = <<>>
  /\ file' = NoFile
  /\ vals' = <<>>
  /\ batch' = NoBatch

Init == Idle

\* image-upload, chi-routed: POST /image/process-upload
PostProcessUpload ==
  /\ pc = "idle"
  /\ \E body \in RequestBodies, cfg \in UploadConfigs :
       \E w \in WorldsFor(ProcessValidate(body, cfg), LateFaults \ {"send"}) :
         Finished("PostProcessUpload", body, cfg, w,
                  PostProcessUploadRun(body, cfg, w))

\* image-upload, Lambda-native process-upload
ProcessUploadHandler ==
  /\ pc = "idle"
  /\ \E body \in RequestBodies, cfg \in UploadConfigs :
       \E w \in WorldsFor(ProcLambdaValidate(body, cfg), LateFaults \ {"send"}) :
         Finished("ProcessUploadHandler", body, cfg, w, ProcLambdaRun(body, cfg, w))

\* image-upload, chi-routed: GET /image/upload-url
GetUploadURL ==
  /\ pc = "idle"
  /\ \E d \in Directories, e \in QueryExtensions, w \in SignWorlds :
       LET req == [directory |-> d, extension |-> e]
       IN Finished("GetUploadURL", req, <<>>, w, GetUploadURLRun(req, w))

\* image-upload, Lambda-native upload-url
UploadURLHandler ==
  /\ pc = "idle"
  /\ \E d \in Directories, e \in QueryExtensions, w \in SignWorlds :
       LET req == [directory |-> d, extension |-> e]
       IN Finished("UploadURLHandler", req, <<>>, w, UrlLambdaRun(req, w))

\* image-upload, chi-routed: DELETE /image/delete/{key}
DeleteImage ==
  /\ pc = "idle"
  /\ \E key \in DeleteKeys, w \in DeleteWorlds :
       LET uri == DeleteURI(key)
       IN Finished("DeleteImage", [uri |-> uri], <<>>, w, DeleteImageRun(uri, w))

\* image-upload, Lambda-native delete
DeleteHandler ==
  /\ pc = "idle"
  /\ \E key \in DeleteKeys, w \in DeleteWorlds :
       LET req == [image_key |-> key]
       IN Finished("DeleteHandler", req, <<>>, w, DeleteLambdaRun(req, w))

\* image-upload, queue-triggered: the Handler is invoked with a batch; a
\* configuration that does not parse ends the invocation with the error
UploadImageStart ==
  /\ pc = "idle"
  /\ \E cfg \in UploadConfigs, n \in 0..MaxBatch :
       LET s == QueueEnv(Run0(UploadLocals), cfg)
       IN IF s.ret
          THEN /\ n = 0
               /\ Finished("UploadImageHandler", <<>>, cfg, NoWorld, s)
          ELSE /\ pc' = "queue"
               /\ handler' = "UploadImageHandler"
               /\ request' = <<>>
               /\ config' = cfg
               /\ world' = NoWorld
               /\ trace' = s.trace
               /\ file' = s.file
               /\ vals' = s.v
               /\ batch' = [left |-> n, done |-> <<>>]

\* the next message of the batch is processed
UploadImageRecord ==
  /\ pc = "queue"
  /\ batch.left > 0
  /\ \E msg \in QueueMessages :
       \E w \in (IF QueueValidate(msg, config).ret THEN {NoWorld} ELSE QueueWorlds) :
         LET s == QueueRecordRun(msg, config, w)
         IN /\ request' = msg
            /\ world' = w
            /\ trace' = s.trace
            /\ file' = s.file
            /\ vals' = s.v
            /\ batch' = [left |-> batch.left - 1,
                         done |-> Append(batch.done, RecordOutcome(s))]
  /\ UNCHANGED <<pc, handler, config>>

\* a handler that gives up on the batch at the first skipped record
UploadImageReturnMutant ==
  /\ pc = "queue"
  /\ \/ batch.left = 0
     \/ Len(batch.done) > 0 /\ batch.done[Len(batch.done)] = "skipped"
  /\ pc' = "done"
  /\ UNCHANGED <<handler, request, config, world, trace, file, vals, batch>>

\* complete: return nil
UploadImageReturn ==
  /\ pc = "queue"
  /\ batch.left = 0
  /\ pc' = "done"
  /\ UNCHANGED <<handler, request, config, world, trace, file, vals, batch>>

Next ==
  \/ UploadImageStart
  \/ UploadImageRecord
  \/ UploadImageReturn
  \/ GetResizeCrop
  \/ ImageResizeCropHandler
  \/ PostProcessUpload
  \/ ProcessUploadHandler
  \/ GetUploadURL
  \/ UploadURLHandler
  \/ DeleteImage
  \/ DeleteHandler
  \/ NextInvocation

Spec == Init /\ [][Next]_vars

(***************************************************************************)
(* resizeImageIfTooLarge as a pure function: every source size and every   *)
(* pair of bounds is an initial state, the one action applies it.          *)
(***************************************************************************)
InitFit ==
  /\ pc = "fit"
  /\ handler = "resizeImageIfTooLarge"
  /\ request \in [width : 1..MaxSrc, height : 1..MaxSrc,
                  maxWidth : 1..MaxBound, maxHeight : 1..MaxBound]
  /\ config = <<>>
  /\ world = NoWorld
  /\ trace = <<>>
  /\ file = NoFile
  /\ vals = <<>>
  /\ batch = NoBatch

Fit ==
  /\ pc = "fit"
  /\ pc' = "fitted"
  /\ vals' = resizeDims(request.width, request.height,
                        request.maxWidth, request.maxHeight)
  /\ UNCHANGED <<handler, request, config, world, trace, file, batch>>

NextFit == Fit

SpecFit == InitFit /\ [][NextFit]_vars

(***************************************************************************)
(* Two runs of one transforming handler on one file system, interleaved    *)
(* call by call.  The local file is a path under /tmp: os.Create truncates *)
(* whatever is at the path, the download writes through the run's file     *)
(* handle, imaging.Open and imaging.Save go through the path again, and    *)
(* the upload reads the handle.  file is the file system (path to          *)
(* content), vals the two runs' locals, pc their positions.                *)
(***************************************************************************)
PairKinds == {"crop", "finalize"}

PairCropConfig == [MAX_WIDTH |-> <<"4">>, MAX_HEIGHT |-> <<"3", "0">>]

PairUploadConfig == [MAX_BYTES |-> <<"2">>, MAX_WIDTH |-> <<"4">>, MAX_HEIGHT |-> <<"3">>]

\* the requests of the two runs: crop requests for a key, finalize requests
\* for an uploaded file whose image will fit
PairRequests(kind) ==
  IF kind = "crop"
  THEN { [size |-> <<"3", "x", "3">>, image_key |-> k] : k \in ImageKeys \ {<<>>} }
  ELSE { b \in RequestBodies :
           /\ b.json = "object"
           /\ b.file_id # <<>>
           /\ b.file_extension # <<>>
           /\ b.width = 0
           /\ b.height = 0 }

\* the names the handler assigns: the source key and the local file
PairNames(kind, req) ==
  IF kind = "crop"
  THEN LET v == CropChiValidate(CropURI(req.size, req.image_key), PairCropConfig).v
       IN [key |-> v.imageKey, localFile |-> v.localFile]
  ELSE LET v == ProcessValidate(req, PairUploadConfig).v
       IN [key |-> v.fileKey, localFile |-> v.localFile]

\* content of a path: which run wrote it last, the object the bytes come
\* from (<<>> for no bytes), and whether they are a re-encoded image
EmptyContent == [writer |-> 0, key |-> <<>>, resized |-> FALSE]

InitPair ==
  /\ handler \in PairKinds
  /\ request \in [1..2 -> PairRequests(handler)]
  /\ pc = [p \in 1..2 |-> "invoked"]
  /\ vals = [p \in 1..2 |->
               [key |-> PairNames(handler, request[p]).key,
                localFile |-> PairNames(handler, request[p]).localFile,
                img |-> EmptyContent]]
  /\ file = [path \in {PairNames(handler, request[p]).localFile : p \in 1..2} |->
               EmptyContent]
  /\ trace = <<>>
  /\ config = [logger |-> 0]
  /\ world = NoWorld
  /\ batch = NoBatch

\* Handler: initialize logger.  The package-level variable logger is
\* assigned the logger of this invocation's request id (config.logger is
\* that variable, 0 for nil), then the request is served.
PairHandler ==
  \E p \in 1..2 :
    /\ pc[p] = "invoked"
    /\ pc' = [pc EXCEPT ![p] = "start"]
    /\ config' = [config EXCEPT !.logger = p]
    /\ UNCHANGED <<handler, request, world, trace, file, vals, batch>>

\* create local temp file: os.Create truncates the path and opens it
PairCreate ==
  \E p \in 1..2 :
    /\ pc[p] = "start"
    /\ pc' = [pc EXCEPT ![p] = "created"]
    /\ file' = [file EXCEPT ![vals[p].localFile] = [EmptyContent EXCEPT !.writer = p]]
    /\ UNCHANGED <<handler, request, config, world, trace, vals, batch>>

\* download file from S3: the object's bytes are written through the handle
PairDownload ==
  \E p \in 1..2 :
    /\ pc[p] = "created"
    /\ pc' = [pc EXCEPT ![p] = "downloaded"]
    /\ file' = [file EXCEPT ![vals[p].localFile] =
                  [writer |-> p, key |-> vals[p].key, resized |-> FALSE]]
    /\ UNCHANGED <<handler, request, config, world, trace, vals, batch>>

\* detect file type, open image: both fail on a file without bytes, and the
\* run logs the error through the variable logger, closes its file and
\* returns; otherwise the image at the path is decoded
PairOpen ==
  \E p \in 1..2 :
    /\ pc[p] = "downloaded"
    /\ IF file[vals[p].localFile].key = <<>>
       THEN /\ pc' = [pc EXCEPT ![p] = "closed"]
            /\ trace' = Append(trace, [op |-> "log", a |-> p, b |-> config.logger])
            /\ UNCHANGED vals
       ELSE /\ pc' = [pc EXCEPT ![p] = "opened"]
            /\ vals' = [vals EXCEPT ![p].img = file[vals[p].localFile]]
            /\ UNCHANGED trace
    /\ UNCHANGED <<handler, request, config, world, file, batch>>

\* resize image: the crop handler always re-encodes the decoded image over
\* the path
PairSave ==
  \E p \in 1..2 :
    /\ handler = "crop"
    /\ pc[p] = "opened"
    /\ pc' = [pc EXCEPT ![p] = "saved"]
    /\ file' = [file EXCEPT ![vals[p].localFile] =
                  [writer |-> p, key |-> vals[p].img.key, resized |-> TRUE]]
    /\ UNCHANGED <<handler, request, config, world, trace, vals, batch>>

\* upload to public bucket: what is at the path is read and put under the
\* run's destination key, and the completion is logged through the variable
\* logger
PairUpload ==
  \E p \in 1..2 :
    /\ pc[p] = (IF handler = "crop" THEN "saved" ELSE "opened")
    /\ pc' = [pc EXCEPT ![p] = "uploaded"]
    /\ trace' = trace \o << [op |-> "upload", a |-> p, b |-> file[vals[p].localFile]],
                            [op |-> "log", a |-> p, b |-> config.logger] >>
    /\ UNCHANGED <<handler, request, config, world, file, vals, batch>>

\* close(file) and the response
PairClose ==
  \E p \in 1..2 :
    /\ pc[p] = "uploaded"
    /\ pc' = [pc EXCEPT ![p] = "closed"]
    /\ UNCHANGED <<handler, request, config, world, trace, file, vals, batch>>

NextPair ==
  \/ PairHandler
  \/ PairCreate
  \/ PairDownload
  \/ PairOpen
  \/ PairSave
  \/ PairUpload
  \/ PairClose

SpecPair == InitPair /\ [][NextPair]_vars

(***************************************************************************)
(* Vocabulary of the properties: what a run did, read off its trace.       *)
(***************************************************************************)
TraceOps(op) == {i \in 1..Len(trace) : trace[i].op = op}

Did(op) == TraceOps(op) # {}

\* the status codes of the responses the run wrote
Statuses == {trace[i].a : i \in TraceOps("respond")}

\* the run logged an error whose message starts with this text
Logged(prefix) == \E i \in TraceOps("log") : trace[i].a[1] = prefix

CropHandlers == {"GetResizeCrop", "ImageResizeCropHandler"}

SyncFinalizeHandlers == {"PostProcessUpload", "ProcessUploadHandler"}

QueueHandlers == {"UploadImageHandler"}

SupportedTypes == {"image/png", "image/jpeg"}

\* the run fetched an object from the Blob Store
Downloaded ==
  Did("download") /\ world.fault \notin DownloadFaults \cup {"create", "unused"}

\* every numeric environment parameter is a decimal numeral
ConfigParses ==
  \A f \in DOMAIN config :
    Len(config[f]) > 0 /\ \A i \in 1..Len(config[f]) : config[f][i] \in Digits

\* C1: in the crop handlers and the synchronous finalize handlers a download
\* that fails with NoSuchKey is answered 404 and never 500; every other
\* download failure is answered 500.
C1_MissingSourceIsNotFound ==
  (/\ handler \in CropHandlers \cup SyncFinalizeHandlers
   /\ Did("download")
   /\ world.fault \in DownloadFaults)
  => Statuses = (IF world.fault = "NoSuchKey" THEN {404} ELSE {500})

\* C2: in the synchronous and the queue-driven finalize pipelines an asset
\* that is both larger than maxBytes and of an unsupported type is rejected
\* as too large, never as an unsupported type.
C2_SizeCheckBeforeTypeSniff ==
  (/\ handler \in SyncFinalizeHandlers \cup QueueHandlers
   /\ Downloaded
   /\ world.fault # "read"
   /\ world.asset.numBytes > vals.maxBytes
   /\ DetectContentType(world.asset.magic) \notin SupportedTypes)
  => Logged("File is too large: ") /\ ~Logged("Unsupported file type: ")

\* the steps of a run, as distinct from logging and closing the buffer
StepOps ==
  {"keygen", "sign", "delete", "create", "download", "sizecheck", "sniff",
   "decode", "resize", "save", "upload", "send"}

\* the run's i-th event is an error outcome: an error response, the error
\* returned to the runtime, or the logged error that skips a queue record
ErrorOutcomeAt(i) ==
  \/ trace[i].op = "respond" /\ trace[i].a >= 400
  \/ trace[i].op = "fail"
  \/ handler \in QueueHandlers /\ trace[i].op = "log"

\* C3: once a run has produced an error outcome no later step executes and
\* no further response is written, in every handler.
C3_FailFast ==
  \A i \in 1..Len(trace) :
    ErrorOutcomeAt(i) =>
      \A j \in (i + 1)..Len(trace) : trace[j].op \notin StepOps \cup {"respond"}

\* C4: every resize is preceded by a type sniff that found a supported type
\* and by a byte-size check that found the byte count within maxBytes.
C4_ResizeOnlyAfterValidation ==
  \A i \in TraceOps("resize") :
    /\ \E j \in 1..(i - 1) : trace[j].op = "sniff" /\ trace[j].a \in SupportedTypes
    /\ \E k \in 1..(i - 1) : trace[k].op = "sizecheck" /\ trace[k].a <= trace[k].b

\* the crop request carries an empty size or an empty image key
CropFieldMissing == request.size = <<>> \/ request.image_key = <<>>

\* the finalize request is a JSON object with an empty file_id or file_extension
FinalizeFieldMissing ==
  request.json = "object" /\ (request.file_id = <<>> \/ request.file_extension = <<>>)

\* the one response of the run is a 400 whose message starts with this text
\* and goes on to name this field
Rejected400Naming(prefix, field) ==
  /\ Statuses = {400}
  /\ \A i \in TraceOps("respond") :
       /\ trace[i].b.error[1] = prefix
       /\ \E k \in 1..Len(trace[i].b.error) : trace[i].b.error[k] = field

SizePattern(s) ==
  LET xs == {i \in 1..Len(s) : s[i] = "x"}
  IN /\ Cardinality(xs) = 1
     /\ 1 \notin xs
     /\ Len(s) \notin xs
     /\ \A i \in (1..Len(s)) \ xs : s[i] \in Digits

\* the numbers a size token "WxH" denotes
PatternW(s) == DecVal(SubSeq(s, 1, IndexOf(s, "x") - 1))

PatternH(s) == DecVal(SubSeq(s, IndexOf(s, "x") + 1, Len(s)))

\* C6: with the configuration resolved and size and key present, a crop
\* request whose size token does not match ^\d+x\d+$ is answered 400 (never
\* 500) and neither a local buffer nor a download is attempted; a matching
\* token "WxH" passes validation and is parsed to width W and height H.
C6_SizeTokenFormat ==
  (/\ pc = "done"
   /\ handler \in CropHandlers
   /\ ConfigParses
   /\ ~CropFieldMissing)
  => IF SizePattern(request.size)
     THEN /\ Did("create")
          /\ ~Did("resize") =>
               /\ vals.width = PatternW(request.size)
               /\ vals.height = PatternH(request.size)
     ELSE /\ Statuses = {400}
          /\ ~Did("create")
          /\ ~Did("download")

\* a request with the token "3x3x" was answered 400 without a download
C6_Witness ==
  /\ pc = "done"
  /\ handler = "GetResizeCrop"
  /\ ConfigParses
  /\ request.size = <<"3", "x", "3", "x">>
  /\ request.image_key = <<"a.png">>
  /\ Statuses = {400}
  /\ ~Did("download")

\* C7: a run that sniffs a type outside {image/png, image/jpeg} neither
\* decodes, resizes nor uploads the asset; the HTTP handlers answer 400 with
\* the message naming the detected type, whatever the extension of the key.
C7_UnsupportedTypeRejected ==
  \A i \in TraceOps("sniff") :
    (trace[i].a # "error" /\ trace[i].a \notin SupportedTypes)
    => /\ ~Did("decode") /\ ~Did("resize") /\ ~Did("save") /\ ~Did("upload")
       /\ handler \in CropHandlers \cup SyncFinalizeHandlers =>
            /\ Statuses = {400}
            /\ \A r \in TraceOps("respond") :
                 /\ trace[r].b.error[1] = "Unsupported file type: "
                 /\ trace[r].b.error[2] = trace[i].a

\* a GIF within the byte limit, stored under a .png key, was answered 400
C7_Witness ==
  /\ pc = "done"
  /\ handler = "PostProcessUpload"
  /\ request.file_extension = <<"png">>
  /\ Downloaded
  /\ world.asset.magic = "GIF8"
  /\ world.asset.numBytes <= vals.maxBytes
  /\ Statuses = {400}
  /\ \E i \in TraceOps("sniff") : trace[i].a = "image/gif"

Lesser(a, b) == IF a <= b THEN a ELSE b

\* C8: for a crop request "WxH" with W > 0 and H > 0 the exact-crop resize
\* is given min(W, maxWidth) and min(H, maxHeight), whatever the source.
C8_CropDimsAreClamped ==
  (/\ handler \in CropHandlers
   /\ Did("resize")
   /\ PatternW(request.size) > 0
   /\ PatternH(request.size) > 0)
  => \A i \in TraceOps("resize") :
       /\ trace[i].a = Lesser(PatternW(request.size), DecVal(config.MAX_WIDTH))
       /\ trace[i].b = Lesser(PatternH(request.size), DecVal(config.MAX_HEIGHT))

\* "30x3" against the maxima 4x30 was resized to 4x3 from an 8x4 source
C8_Witness ==
  /\ handler = "ImageResizeCropHandler"
  /\ request.size = <<"3", "0", "x", "3">>
  /\ world.asset.w = 8
  /\ \E i \in TraceOps("resize") : trace[i].a = 4 /\ trace[i].b = 3

\* the request's bounds make the image too large: min(bW/sW, bH/sH) < 1
RatioBelowOne ==
  request.maxWidth < request.width \/ request.maxHeight < request.height

\* the width is the limiting dimension: bW/sW <= bH/sH
WidthLimits ==
  request.maxWidth * request.height <= request.maxHeight * request.width

\* floor(side * ratio) for ratio = min(bW/sW, bH/sH), in exact arithmetic
FloorScaled(side) ==
  IF WidthLimits
  THEN (side * request.maxWidth) \div request.width
  ELSE (side * request.maxHeight) \div request.height

Abs(n) == IF n < 0 THEN 0 - n ELSE n

\* C9: for positive source sizes and bounds with ratio < 1 the image is
\* resized to floor(sourceW * ratio) by floor(sourceH * ratio); the limiting
\* dimension comes out equal to its bound, and the aspect ratio is kept
\* within one pixel.
C9_FitIsFloorOfScaled ==
  (pc = "fitted" /\ RatioBelowOne)
  => /\ vals.resized
     /\ vals.width = FloorScaled(request.width)
     /\ vals.height = FloorScaled(request.height)
     /\ IF WidthLimits
        THEN /\ vals.width = request.maxWidth
             /\ Abs(vals.height * request.width - request.height * vals.width)
                  <= request.width
        ELSE /\ vals.height = request.maxHeight
             /\ Abs(vals.width * request.height - request.width * vals.height)
                  <= request.height

\* the bound the spec resolves for one side of a finalize request
ResolvedBound(configured, requested) ==
  IF requested > 0 THEN Lesser(configured, requested) ELSE configured

\* the source image of a synchronous finalize run fits the resolved bounds
SourceFits ==
  /\ request.width >= 0
  /\ request.height >= 0
  /\ world.asset.w <= ResolvedBound(vals.maxWidth, request.width)
  /\ world.asset.h <= ResolvedBound(vals.maxHeight, request.height)

\* C10: a synchronous finalize run whose source fits the resolved bounds
\* does not resize or rewrite the buffer, uploads the bytes it downloaded,
\* and reports the source dimensions as the final width and height.
C10_PassThroughWhenFits ==
  (/\ handler \in SyncFinalizeHandlers
   /\ Did("upload")
   /\ SourceFits)
  => /\ ~Did("resize")
     /\ ~Did("save")
     /\ \A i \in TraceOps("upload") :
          trace[i].b.content = [orig |-> TRUE, asset |-> world.asset]
     /\ \A i \in TraceOps("respond") :
          trace[i].a < 300 =>
            /\ trace[i].b.width = world.asset.w
            /\ trace[i].b.height = world.asset.h

FinalizeHandlers == SyncFinalizeHandlers \cup QueueHandlers

\* the key the caller's values spell: "<directory>/<fileId>.<extension>", or
\* "<fileId>.<extension>" when the directory is empty
CallerKey ==
  IF request.directory = <<>>
  THEN request.file_id \o <<".">> \o request.file_extension
  ELSE request.directory \o <<"/">> \o request.file_id \o <<".">> \o request.file_extension

\* C11: in every finalize variant each download reads the upload bucket and
\* each upload writes the public bucket under the same key, which is the
\* caller's "<directory>/<fileId>.<extension>" (or "<fileId>.<extension>"),
\* whatever type the asset is sniffed as.
C11_FinalizeKeyFromCaller ==
  handler \in FinalizeHandlers =>
    /\ \A i \in TraceOps("download") :
         trace[i].a = "AWS_S3_BUCKET_UPLOAD" /\ trace[i].b = CallerKey
    /\ \A i \in TraceOps("upload") :
         /\ trace[i].a.bucket = "AWS_S3_BUCKET_PUBLIC"
         /\ trace[i].a.key = CallerKey

\* a JPEG stored as test/90546589.png was uploaded under test/90546589.png
C11_Witness ==
  /\ handler = "PostProcessUpload"
  /\ world.asset.magic = "\\xFF\\xD8\\xFF"
  /\ \E i \in TraceOps("upload") :
       /\ trace[i].a.key = <<"test", "/", "90546589", ".", "png">>
       /\ trace[i].a.contentType = "image/jpeg"
       /\ trace[i].b.result = "ok"
  /\ \E i \in TraceOps("download") :
       trace[i].b = <<"test", "/", "90546589", ".", "png">>

\* the destination key of a crop request: "crop/<size>/<key>"
CropKey == <<"crop/">> \o request.size \o <<"/">> \o request.image_key

\* the last n atoms of a string
Suffix(s, n) == SubSeq(s, Len(s) - n + 1, Len(s))

\* C12: a crop request answered with the redirect wrote exactly one object,
\* to the destination bucket under "crop/<size>/<key>" with the size token as
\* received, read the source under <key>, and the redirect location ends in
\* that same destination key.
C12_CropDestinationKey ==
  (handler \in CropHandlers /\ 301 \in Statuses)
  => /\ Statuses = {301}
     /\ Cardinality(TraceOps("upload")) = 1
     /\ \A i \in TraceOps("upload") :
          /\ trace[i].a.bucket = "AWS_S3_BUCKET_DESTINATION"
          /\ trace[i].a.key = CropKey
          /\ trace[i].b.result = "ok"
     /\ \A i \in TraceOps("download") : trace[i].b = request.image_key
     /\ \A i \in TraceOps("respond") :
          /\ Len(trace[i].b.location) > Len(CropKey)
          /\ Suffix(trace[i].b.location, Len(CropKey)) = CropKey

\* "03x3" for d/a.png was stored under crop/03x3/d/a.png and redirected there
C12_Witness ==
  /\ handler = "GetResizeCrop"
  /\ request.size = <<"0", "3", "x", "3">>
  /\ request.image_key = <<"d", "/", "a.png">>
  /\ Statuses = {301}
  /\ \E i \in TraceOps("upload") :
       trace[i].a.key = <<"crop/", "0", "3", "x", "3", "/", "d", "/", "a.png">>

\* the record just processed is well-formed and none of its collaborators
\* fails: both fields present, a supported type within the byte limit
RecordClean ==
  /\ request.json = "object"
  /\ request.file_id # <<>>
  /\ request.file_extension # <<>>
  /\ world.fault = "none"
  /\ DetectContentType(world.asset.magic) \in SupportedTypes
  /\ world.asset.numBytes <= vals.maxBytes

\* the successful sends / uploads among the events of the current record
SendsOk == {i \in TraceOps("send") : trace[i].b = "ok"}

UploadsOk == {i \in TraceOps("upload") : trace[i].b.result = "ok"}

\* C13: the queue handler leaves its loop only when no record is left, and
\* every record is processed in its turn whatever became of the records
\* before it: its outcome is appended to those of the earlier records, a
\* well-formed record whose collaborators do not fail is uploaded and emits
\* its callback message, and a skipped record emits none.
C13_FailedItemDoesNotStopBatch ==
  [][ pc = "queue" =>
        \/ /\ pc' = "queue"
           /\ batch.left > 0
           /\ batch'.left = batch.left - 1
           /\ Len(batch'.done) = Len(batch.done) + 1
           /\ SubSeq(batch'.done, 1, Len(batch.done)) = batch.done
           /\ RecordClean' => batch'.done[Len(batch'.done)] = "sent"
           /\ batch'.done[Len(batch'.done)] = "sent" =>
                Cardinality(SendsOk') = 1 /\ Cardinality(UploadsOk') = 1
           /\ batch'.done[Len(batch'.done)] = "skipped" => ~Did("send")'
        \/ /\ pc' = "done"
           /\ batch.left = 0
           /\ batch' = batch ]_vars

\* a batch of three whose second record was skipped: the first and the third
\* were uploaded and emitted their callback messages
C13_Witness ==
  /\ handler = "UploadImageHandler"
  /\ pc = "done"
  /\ batch.done = <<"sent", "skipped", "sent">>
  /\ Cardinality(SendsOk) = 1

\* C14: in a synchronous finalize success response the width field is the
\* final width and the height field the final height that
\* resizeImageIfTooLarge returned, and size_bytes is the byte count of the
\* uploaded object.
C14_ResponseReportsFinalSize ==
  handler \in SyncFinalizeHandlers =>
    \A i \in TraceOps("respond") :
      trace[i].a < 300 =>
        /\ trace[i].b.width = vals.finalWidth
        /\ trace[i].b.height = vals.finalHeight
        /\ \A u \in TraceOps("upload") :
             trace[i].b.size_bytes = trace[u].b.content.asset.numBytes

\* the finalize request carries a width or height that is not a number, or
\* a negative one
BadRequestedGeometry ==
  \/ request.json = "type"
  \/ request.json = "object" /\ (request.width < 0 \/ request.height < 0)

\* C15: with the configuration resolved, a synchronous finalize request
\* whose width or height is negative or non-numeric is answered 400 and
\* nothing is uploaded.
C15_BadGeometryRejected ==
  (/\ pc = "done"
   /\ handler \in SyncFinalizeHandlers
   /\ ConfigParses
   /\ BadRequestedGeometry)
  => Statuses = {400} /\ ~Did("upload")

\* the image of a finalize run was decoded
Decoded == \E i \in TraceOps("decode") : trace[i].a = "ok"

\* C16: a requested dimension of 0 resolves to the configured maximum of
\* that dimension and the pipeline proceeds with that bound: the exact-crop
\* resize of a crop request "0xH" is given maxWidth (of "Wx0", maxHeight),
\* and a finalize run with a requested width or height of 0 resizes exactly
\* when the source exceeds the bounds resolved that way.
C16_ZeroFallsBackToMaximum ==
  /\ (handler \in CropHandlers /\ Did("resize")) =>
       \A i \in TraceOps("resize") :
         /\ PatternW(request.size) = 0 => trace[i].a = DecVal(config.MAX_WIDTH)
         /\ PatternH(request.size) = 0 => trace[i].b = DecVal(config.MAX_HEIGHT)
  /\ (/\ handler \in FinalizeHandlers
      /\ Decoded
      /\ request.width >= 0
      /\ request.height >= 0
      /\ request.width = 0 \/ request.height = 0) =>
       (Did("resize") <=>
          \/ world.asset.w > ResolvedBound(vals.maxWidth, request.width)
          \/ world.asset.h > ResolvedBound(vals.maxHeight, request.height))

\* C17: every server-error outcome of an HTTP handler is the 500 response
\* with the body {"error":"Server error"} and nothing else: no error value
\* naming the cause is handed back with it.
C17_ServerErrorIsGeneric ==
  handler \notin QueueHandlers =>
    /\ \A i \in TraceOps("respond") :
         trace[i].a = 500 => trace[i].b = [error |-> <<"Server error">>]
    /\ ~Did("fail")

\* C18: in the queue handler a callback message is sent at most once per
\* record, only after that record's upload to the public bucket succeeded,
\* to the callback queue, and it carries the public bucket with the
\* record's own callback_url, directory, file_id and file_extension; a
\* record without a successful upload sends none.
C18_CallbackAfterUpload ==
  handler \in QueueHandlers =>
    /\ Cardinality(TraceOps("send")) <= 1
    /\ \A i \in TraceOps("send") :
         /\ \E u \in UploadsOk :
              u < i /\ trace[u].a.bucket = "AWS_S3_BUCKET_PUBLIC"
         /\ trace[i].a.queue = "CALLBACK_QUEUE"
         /\ trace[i].a.body =
              [callback_url |-> request.callback_url,
               bucket |-> "AWS_S3_BUCKET_PUBLIC",
               directory |-> request.directory,
               file_id |-> request.file_id,
               file_extension |-> request.file_extension]
    /\ UploadsOk = {} => ~Did("send")

\* a record whose image was resized and uploaded sent its callback message
C18_Witness ==
  /\ handler = "UploadImageHandler"
  /\ Did("resize")
  /\ UploadsOk # {}
  /\ request.file_id = <<"90546589">>
  /\ \E i \in SendsOk :
       trace[i].a.body.callback_url = <<"https://example.com/cb">>

\* what a run does with its open local file
FileOps == {"download", "sniff", "decode", "save", "upload"}

\* C19: once the local temp file has been created, whichever way the run (or
\* the queue record) ends, the file has been closed exactly once: it is not
\* left open, the close comes before the response is produced, and nothing
\* touches the file after the close.
C19_BufferClosedOnce ==
  /\ file.created <=> Cardinality(TraceOps("close")) = 1
  /\ file.created => file.closes = 1 /\ ~file.open
  /\ ~file.created => ~Did("close") /\ file.closes = 0
  /\ \A c \in TraceOps("close") :
       /\ \A r \in TraceOps("respond") : c < r
       /\ \A j \in (c + 1)..Len(trace) : trace[j].op \notin FileOps

\* a synchronous finalize run whose Stat failed after the upload closed its
\* file once and answered 500
C19_Witness ==
  /\ handler = "PostProcessUpload"
  /\ world.fault = "stat"
  /\ UploadsOk # {}
  /\ file.created
  /\ file.closes = 1
  /\ Statuses = {500}

\* the positions at which a run holds its local file
PairHolding == {"created", "downloaded", "opened", "saved", "uploaded"}

\* C20: two runs that hold their local files at the same time hold
\* different paths, and what a run uploads are bytes it wrote itself, taken
\* from its own source object.
C20_LocalBufferExclusive ==
  /\ (pc[1] \in PairHolding /\ pc[2] \in PairHolding) =>
       vals[1].localFile # vals[2].localFile
  /\ \A i \in TraceOps("upload") :
       /\ trace[i].b.writer = trace[i].a
       /\ trace[i].b.key = vals[trace[i].a].key

\* C21: runs share no mutable state; in particular every line a run logs
\* goes through the logger that run itself set up, never through the logger
\* of another run.
C21_NoSharedMutableState ==
  \A i \in TraceOps("log") : trace[i].b = trace[i].a

PipelineHandlers == CropHandlers \cup FinalizeHandlers

\* the pipeline state an event belongs to: 2 DOWNLOADING, 3 TRANSFORMING,
\* 4 UPLOADING, 5 DONE or FAILED; 0 for logging and closing the buffer
PhaseOf(op) ==
  CASE op \in {"create", "download"} -> 2
    [] op \in {"sizecheck", "sniff", "decode", "resize", "save"} -> 3
    [] op = "upload" -> 4
    [] op \in {"send", "respond", "fail"} -> 5
    [] OTHER -> 0

\* the run's i-th event is a step that failed
StepFailedAt(i) ==
  \/ trace[i].op \in {"create", "save", "send"} /\ trace[i].b = "error"
  \/ trace[i].op \in {"sniff", "decode"} /\ trace[i].a = "error"
  \/ trace[i].op = "upload" /\ trace[i].b.result = "error"
  \/ trace[i].op = "download" /\ world.fault \in DownloadFaults

\* C22: a pipeline run (one queue record, for the queue handler) only moves
\* forward: its events never go back to an earlier pipeline state, no step
\* is executed twice, there is at most one download and at most one upload,
\* the upload comes after the download, and no step follows a failed step.
C22_ForwardOnly ==
  handler \in PipelineHandlers =>
    /\ \A i, j \in 1..Len(trace) :
         (i < j /\ PhaseOf(trace[i].op) > 0 /\ PhaseOf(trace[j].op) > 0) =>
           /\ PhaseOf(trace[i].op) <= PhaseOf(trace[j].op)
           /\ trace[i].op # trace[j].op
    /\ Cardinality(TraceOps("download")) <= 1
    /\ Cardinality(TraceOps("upload")) <= 1
    /\ \A u \in TraceOps("upload") : \E d \in TraceOps("download") : d < u
    /\ \A i \in 1..Len(trace) :
         StepFailedAt(i) =>
           \A j \in (i + 1)..Len(trace) : trace[j].op \notin StepOps

\* a finalize run went through download, resize and upload and answered 201
C22_Witness ==
  /\ handler = "PostProcessUpload"
  /\ Did("download")
  /\ Did("resize")
  /\ UploadsOk # {}
  /\ Statuses = {201}

\* C23: a queue-driven invocation takes the records of its batch one at a
\* time and each exactly once: a record is only started when the local file
\* of the record before it is closed, every record step consumes one record,
\* appends its outcome after the outcomes of the earlier records, downloads
\* at most once and leaves its local file closed; the invocation returns
\* after the last record, and it returns nil whenever the configuration
\* parsed, whatever the outcomes of the records were.
C23_SequentialBatch ==
  [][ (pc = "queue" /\ handler \in QueueHandlers) =>
        /\ ~file.open
        /\ \/ /\ pc' = "queue"
              /\ batch.left > 0
              /\ batch'.left = batch.left - 1
              /\ Len(batch'.done) = Len(batch.done) + 1
              /\ SubSeq(batch'.done, 1, Len(batch.done)) = batch.done
              /\ Cardinality(TraceOps("download")') <= 1
              /\ ~file'.open
              /\ file'.created => file'.closes = 1
              /\ \A d \in TraceOps("download")' :
                   \E c \in TraceOps("close")' : d < c
           \/ /\ pc' = "done"
              /\ batch.left = 0
              /\ batch' = batch
              /\ ConfigParses' /\ ~Did("fail")' ]_vars

\* a batch of three returned although every record was skipped, the last one
\* after its download failed
C23_Witness ==
  /\ handler = "UploadImageHandler"
  /\ pc = "done"
  /\ batch.done = <<"skipped", "skipped", "skipped">>
  /\ Did("download")
  /\ ~Did("fail")
  /\ ~file.open

ChiUploadHandlers == {"GetUploadURL", "PostProcessUpload", "DeleteImage"}

\* C24: a request served by a chi-routed image-upload handler has exactly
\* one response written to it: one status code with one JSON body.
C24_ExactlyOneResponse ==
  (pc = "done" /\ handler \in ChiUploadHandlers) =>
    Cardinality(TraceOps("respond")) = 1

UploadURLHandlers == {"GetUploadURL", "UploadURLHandler"}

\* the upload_url fields of the bodies the run responded with
UploadURLsSent ==
  { trace[i].b.upload_url :
      i \in { r \in TraceOps("respond") : "upload_url" \in DOMAIN trace[r].b } }

\* C25: in both variants of the upload-URL operation a key is generated, a
\* signing call is made and an upload_url is sent only for the extensions
\* png, jpg and jpeg.
C25_KeyOnlyForSupportedExtension ==
  (pc = "done" /\ handler \in UploadURLHandlers) =>
    (request.extension \notin {<<"png">>, <<"jpg">>, <<"jpeg">>} =>
       /\ ~Did("keygen")
       /\ ~Did("sign")
       /\ UploadURLsSent = {})

DeleteHandlers == {"DeleteImage", "DeleteHandler"}

\* C26: in both variants of the delete operation the Blob Store delete is
\* only called with a non-empty key, 204 is only answered after a delete
\* call that returned no error, a run that found the key empty answers 400
\* and nothing else, and a run whose delete call failed answers 500 and
\* nothing else.
C26_DeleteOnlyWithKey ==
  (pc = "done" /\ handler \in DeleteHandlers) =>
    /\ \A d \in TraceOps("delete") : trace[d].a.key # <<>>
    /\ 204 \in Statuses =>
         /\ TraceOps("delete") # {}
         /\ \A d \in TraceOps("delete") : trace[d].b = "ok"
    /\ vals.imageKey = <<>> => Statuses = {400}
    /\ (\E d \in TraceOps("delete") : trace[d].b = "error") => Statuses = {500}

\* C27: the object a successful crop request stores under
\* crop/<W>x<H>/<key> is W pixels wide and H pixels high, whatever the
\* configured maxima are.
C27_StoredSizeMatchesKey ==
  (pc = "done" /\ handler \in CropHandlers /\ 301 \in Statuses) =>
    \A i \in UploadsOk :
      /\ trace[i].a.key = CropKey
      /\ trace[i].b.content.asset.w = PatternW(request.size)
      /\ trace[i].b.content.asset.h = PatternH(request.size)

\* C28: for a source of at least 1x1 and bounds of at least 1x1 the final
\* dimensions resizeImageIfTooLarge computes lie between 1 and the bound,
\* for the width and for the height.
C28_FinalDimsWithinBounds ==
  pc = "fitted" =>
    /\ 1 <= vals.width /\ vals.width <= request.maxWidth
    /\ 1 <= vals.height /\ vals.height <= request.maxHeight

(***************************************************************************)
(* image-upload, queue-triggered: the upload-image-callback Handler.  One  *)
(* run record is one iteration of the loop over sqsEvent.Records; trace    *)
(* holds the events of the iteration just executed.                        *)
(***************************************************************************)
CallbackEnvs ==
  [ENVIRONMENT : {<<>>, <<"TEST">>}, API_SECRET_KEY : {<<>>, <<"k">>},
   API_USERNAME : {<<>>}, API_PASSWORD : {<<>>}]

\* callback URLs as scheme, separator and rest; the second has no scheme
TargetURLs == {<<>>, <<"https", "://", "example.com/cb">>, <<"://", "example.com/cb">>}

\* message bodies: a JSON object or a syntax error
CallbackBodies ==
  { [json |-> "object", callback_url |-> c, bucket |-> b, directory |-> <<"test">>,
     file_id |-> f, file_extension |-> <<"png">>] :
      c \in TargetURLs, b \in {<<>>, <<"public">>}, f \in FileIds }
  \cup
  { [json |-> "syntax", callback_url |-> <<>>, bucket |-> <<>>, directory |-> <<>>,
     file_id |-> <<>>, file_extension |-> <<>>] }

\* what the callback endpoint does
CallbackWorlds == {[fault |-> f, asset |-> NoAsset] : f \in {"none", "http"}}

CallbackLocals ==
  [callback_url |-> <<>>, bucket |-> <<>>, directory |-> <<>>, file_id |-> <<>>,
   file_extension |-> <<>>, payload |-> <<>>, req |-> "nil", panicked |-> FALSE]

\* decode message body JSON
CallbackDecode(s, msg) ==
  IF msg.json # "object"
  THEN Continue(LogError(s, <<"Error unmarshalling message body">>))
  ELSE [s EXCEPT !.v.callback_url = msg.callback_url,
                 !.v.bucket = msg.bucket,
                 !.v.directory = msg.directory,
                 !.v.file_id = msg.file_id,
                 !.v.file_extension = msg.file_extension]

\* simple sanity check
CallbackSanity(s) ==
  IF s.ret THEN s
  ELSE IF s.v.callback_url = <<>> \/ s.v.bucket = <<>>
          \/ s.v.file_id = <<>> \/ s.v.file_extension = <<>>
  THEN Continue(LogError(s, <<"Missing parameters, cannot complete request">>))
  ELSE s

\* create callback payload; marshalling a struct of strings cannot fail
CallbackMarshal(s) ==
  IF s.ret THEN s
  ELSE [s EXCEPT !.v.payload = [bucket |-> s.v.bucket, directory |-> s.v.directory,
                                file_id |-> s.v.file_id,
                                file_extension |-> s.v.file_extension]]

\* skip actual callback if testing
CallbackSkipTest(s, env) ==
  IF s.ret THEN s
  ELSE IF env.ENVIRONMENT = <<"TEST">> THEN Continue(s) ELSE s

\* url.Parse inside http.NewRequest: a URL that starts with a colon has no
\* protocol scheme and is rejected
URLParses(url) == Len(url) > 0 /\ url[1] # "://"

\* req, err := http.NewRequest(...); err is never looked at, and the header
\* calls that follow dereference req
CallbackNewRequest(s, env) ==
  IF s.ret THEN s
  ELSE IF URLParses(s.v.callback_url)
  THEN [s EXCEPT !.v.req =
          [url |-> s.v.callback_url, body |-> s.v.payload,
           authorization |-> IF env.API_SECRET_KEY # <<>>
                             THEN <<"Apikey ">> \o env.API_SECRET_KEY ELSE <<>>,
           contentType |-> "application/json; charset=utf-8"]]
  ELSE Return([Emit(s, "panic", "nil pointer dereference", <<>>)
                 EXCEPT !.v.panicked = TRUE])

\* resp, err := client.Do(req)
CallbackDo(s, w) ==
  IF s.ret THEN s
  ELSE LET s1 == Emit(s, "post", s.v.req, IF w.fault = "http" THEN "error" ELSE "ok")
       IN IF w.fault = "http"
          THEN Continue(LogError(s1, <<"Error calling API">>))
          ELSE Continue(s1)

\* one iteration of the loop
CallbackRecordRun(msg, env, w) ==
  CallbackDo(CallbackNewRequest(CallbackSkipTest(CallbackMarshal(CallbackSanity(
    CallbackDecode(Run0(CallbackLocals), msg))), env), env), w)

CallbackOutcome(s) ==
  IF s.v.panicked THEN "panic"
  ELSE IF \E i \in 1..Len(s.trace) : s.trace[i].op = "post" /\ s.trace[i].b = "ok"
  THEN "posted"
  ELSE "skipped"

InitCallback ==
  /\ pc = "callbacks"
  /\ handler = "CallbackHandler"
  /\ request = <<>>
  /\ config \in CallbackEnvs
  /\ world = NoWorld
  /\ trace = <<>>
  /\ file = NoFile
  /\ vals = CallbackLocals
  /\ batch \in {[left |-> n, done |-> <<>>] : n \in 0..MaxBatch}

\* the next message of the batch is processed; a panic ends the invocation
CallbackRecord ==
  /\ pc = "callbacks"
  /\ batch.left > 0
  /\ \E msg \in CallbackBodies, w \in CallbackWorlds :
       LET s == CallbackRecordRun(msg, config, w)
       IN /\ request' = msg
          /\ world' = w
          /\ trace' = s.trace
          /\ vals' = s.v
          /\ pc' = IF s.v.panicked THEN "panicked" ELSE "callbacks"
          /\ batch' = [left |-> batch.left - 1,
                       done |-> Append(batch.done, CallbackOutcome(s))]
  /\ UNCHANGED <<handler, config, file>>

\* complete: return nil
CallbackReturn ==
  /\ pc = "callbacks"
  /\ batch.left = 0
  /\ pc' = "done"
  /\ UNCHANGED <<handler, request, config, world, trace, file, vals, batch>>

NextCallback ==
  \/ CallbackRecord
  \/ CallbackReturn

SpecCallback == InitCallback /\ [][NextCallback]_vars

\* C29: the callback-delivery handler skips a message it cannot deliver and
\* goes on with the batch: the invocation only ends when no message is left,
\* it never ends in a panic, and one message causes at most one POST.
C29_UndeliverableIsSkipped ==
  handler = "CallbackHandler" =>
    /\ Cardinality(TraceOps("post")) <= 1
    /\ ~Did("panic")
    /\ pc # "callbacks" => pc = "done" /\ batch.left = 0

(***************************************************************************)
(* image-upload, chi-routed: the router of init() under an API_KEY         *)
(* environment value and an X-API-KEY request header.  Handler hands the   *)
(* request to the router, the router hands it to the route's function.     *)
(***************************************************************************)
APIKeys == {<<>>, <<"k">>}

\* r.Header.Get("X-API-KEY"): <<>> when the header is absent
HeaderAPIKeys == {<<>>, <<"k">>, <<"z">>}

\* authentication checks the request headers for an X_API_KEY value and
\* compares it to env parameter
authentication(APIKey, headerAPIKey) ==
  IF APIKey # <<>>
  THEN IF headerAPIKey # APIKey THEN FALSE ELSE TRUE
  ELSE TRUE

InitAuth ==
  /\ pc = "routing"
  /\ handler = ""
  /\ request \in [header : HeaderAPIKeys, r : {<<>>}]
  /\ config \in [API_KEY : APIKeys, env : {<<>>}]
  /\ world = NoWorld
  /\ trace = <<>>
  /\ file = NoFile
  /\ vals = <<>>
  /\ batch = NoBatch

Served(name, req, cfg, w, s) ==
  /\ pc' = "served"
  /\ handler' = name
  /\ request' = [request EXCEPT !.r = req]
  /\ config' = [config EXCEPT !.env = cfg]
  /\ world' = w
  /\ trace' = s.trace
  /\ file' = s.file
  /\ vals' = s.v
  /\ UNCHANGED batch

\* r.Get("/image/upload-url", GetUploadURL)
ServeUploadURL ==
  /\ pc = "routing"
  /\ \E d \in Directories, e \in QueryExtensions, w \in SignWorlds :
       LET req == [directory |-> d, extension |-> e]
       IN Served("GetUploadURL", req, <<>>, w, GetUploadURLRun(req, w))

\* r.Post("/image/process-upload", PostProcessUpload)
ServeProcessUpload ==
  /\ pc = "routing"
  /\ \E body \in RequestBodies, cfg \in UploadConfigs :
       \E w \in WorldsFor(ProcessValidate(body, cfg), LateFaults \ {"send"}) :
         Served("PostProcessUpload", body, cfg, w,
                PostProcessUploadRun(body, cfg, w))

\* r.Delete("/image/delete/*", DeleteImage)
ServeDelete ==
  /\ pc = "routing"
  /\ \E key \in DeleteKeys, w \in DeleteWorlds :
       LET uri == DeleteURI(key)
       IN Served("DeleteImage", [uri |-> uri], <<>>, w, DeleteImageRun(uri, w))

NextAuth ==
  \/ ServeUploadURL
  \/ ServeProcessUpload
  \/ ServeDelete

SpecAuth == InitAuth /\ [][NextAuth]_vars

\* the storage side effects of the image-upload routes
StorageOps == {"sign", "download", "upload", "delete"}

\* C30: with a non-empty API_KEY a request whose X-API-KEY header differs
\* from it causes no signing, download, upload or delete on any route of the
\* image-upload service; authentication is true exactly when API_KEY is
\* empty or the header equals it.
C30_NoSideEffectWithoutKey ==
  /\ authentication(config.API_KEY, request.header)
       <=> (config.API_KEY = <<>> \/ request.header = config.API_KEY)
  /\ (pc = "served" /\ ~authentication(config.API_KEY, request.header)) =>
       \A i \in 1..Len(trace) : trace[i].op \notin StorageOps

====
